---- MODULE Spec2Model ----
(***************************************************************************)
(* State machine of brickblock.space.Space: the dense coordinate, shape    *)
(* and visual-metadata buffers, the name mapping, the hierarchical index   *)
(* (time-step / scene), the changelog and the counters, together with the  *)
(* add_*, mutate_by_*, transform_by_*, clone_by_offset and snapshot        *)
(* operations.  A call that raises is one step as well: the step leaves    *)
(* the store exactly as the interpreter leaves it when the exception       *)
(* propagates out of the method.                                           *)
(*                                                                         *)
(* Representation.  Vectors are 3-tuples of integers.  The 6x4x3 vertex    *)
(* block of a primitive is an axis-aligned box; it is held as the pair of  *)
(* opposite corners (base = vertex [0][0], far = the opposite vertex), in  *)
(* the storage basis.  The transforms act per vertex and per axis, so the  *)
(* eight vertices stay the combinations of the two corners.  total is held *)
(* doubled (units of 1/2) to stay in the integers; mean is the pair        *)
(* (doubled sum, object count) it was last computed from.  An optional     *)
(* value (None or v) is <<>> or <<v>>.  Ids are 0-based as in the source;  *)
(* row id of a buffer is element id + 1 of the sequence that models it.    *)
(***************************************************************************)
EXTENDS Integers, Sequences, FiniteSets, TLC

\* ------------------------------------------------------------------ bounds
\* Calls are enumerated until MaxCalls calls have changed the store.
MaxCalls == 3
\* Additions and clones are enumerated while the result holds at most
\* MaxPrims primitives.
MaxPrims == 6
\* snapshot is enumerated while scene_counter < MaxScenes.
MaxScenes == 1
\* The second specification enumerates additions and clones while the
\* result holds at most MaxPopulation primitives.
MaxPopulation == 72

\* ------------------------------------------------------- program constants
\* np.zeros((10, 6, 4, 3)) and np.zeros((10, 3)): the initial row capacity.
InitialCapacity == 10

\* ----------------------------------------------------------------- vectors
Zero3 == <<0, 0, 0>>
Ones3 == <<1, 1, 1>>

VAdd(a, b) == <<a[1] + b[1], a[2] + b[2], a[3] + b[3]>>
VMul(a, b) == <<a[1] * b[1], a[2] * b[2], a[3] * b[3]>>
VNeg(a) == <<0 - a[1], 0 - a[2], 0 - a[3]>>

Min2(a, b) == IF a <= b THEN a ELSE b
Max2(a, b) == IF a >= b THEN a ELSE b

\* np.any(val): some component is non-zero.
NpAny(v) == \E i \in 1..3 : v[i] # 0

\* np.dot(coordinate, basis) with basis[0,0] = basis[2,1] = basis[1,2] = 1:
\* the second and third components change places.
ConvertBasis(c) == <<c[1], c[3], c[2]>>

None == <<>>
Some(v) == <<v>>
IsNone(o) == o = <<>>

\* Row id (0-based) of a buffer.
Row(buf, id) == buf[id + 1]

Slice(start, stop) == [start |-> start, stop |-> stop]

\* ----------------------------------------------------------------- objects
\* The dense representation the object classes hand to the space.
\* Keys of visual_metadata(): every object carries the same keys.
VisKeys == {"facecolor", "alpha"}

\* A box with base vector b (caller basis) and shape (w, h, d): width lies
\* on storage axis 0, height on storage axis 2, depth on storage axis 1.
Box(b, shape) ==
    [base |-> ConvertBasis(b), far |-> VAdd(ConvertBasis(b), ConvertBasis(shape))]

Cube(b, name, vm) ==
    [faces |-> <<Box(b, Ones3)>>, shape |-> Ones3, name |-> name, vm |-> vm]

Cuboid(b, shape, name, vm) ==
    [faces |-> <<Box(b, shape)>>, shape |-> shape, name |-> name, vm |-> vm]

\* Offsets of the w*h*d unit cubes of a composite, first member at the base
\* vector, last member at the far corner; width varies fastest.
MemberOffset(k, shape) ==
    <<k % shape[1], (k \div shape[1]) % shape[2], k \div (shape[1] * shape[2])>>

CompositeCube(b, shape, name, vm) ==
    [faces |-> [k \in 1..(shape[1] * shape[2] * shape[3]) |->
                    Box(VAdd(b, MemberOffset(k - 1, shape)), Ones3)],
     shape |-> shape, name |-> name, vm |-> vm]

\* Extrema of one box on axis i.
BoxMin(box, i) == Min2(box.base[i], box.far[i])
BoxMax(box, i) == Max2(box.base[i], box.far[i])

\* cuboid.bounding_box(): per axis (min, max) of the primitive's points.
BoundingBox(obj) ==
    [i \in 1..3 |-> <<BoxMin(obj.faces[1], i), BoxMax(obj.faces[1], i)>>]

\* Doubled mean of the eight corner points of a box.
Centre2(box) == VAdd(box.base, box.far)

\* --------------------------------------------------------------- variables
VARIABLES
    dims,                    \* per axis <<min, max>>
    mean,                    \* [sum, n]: mean = sum / (2 n)
    total,                   \* doubled running sum of object centres
    num_objs,
    primitive_counter,
    time_step,
    scene_counter,
    cuboid_coordinates,      \* rows [base, far], one per primitive
    coordinates_capacity,    \* cuboid_coordinates.shape[0]
    cuboid_shapes,           \* rows (w, h, d); <<>> for a row never stored
    shapes_capacity,         \* cuboid_shapes.shape[0]
    cuboid_visual_metadata,  \* key -> column
    cuboid_index,            \* [primitives, composites]: the touch logs
    cuboid_names,            \* name -> <<optional ids, optional slices>>
    changelog,
    call,                    \* the call performed by the last step
    ncalls,                  \* how many calls have changed the store
    boundary_step            \* time_step at the last snapshot that returned

store_vars == <<dims, mean, total, num_objs, primitive_counter, time_step,
                scene_counter, cuboid_coordinates, coordinates_capacity,
                cuboid_shapes, shapes_capacity, cuboid_visual_metadata,
                cuboid_index, cuboid_names, changelog>>

vars == <<dims, mean, total, num_objs, primitive_counter, time_step,
          scene_counter, cuboid_coordinates, coordinates_capacity,
          cuboid_shapes, shapes_capacity, cuboid_visual_metadata,
          cuboid_index, cuboid_names, changelog, call, ncalls,
          boundary_step>>

\* The store as one value, for the helpers that a method calls in sequence.
\* raised is "" until a helper raises.
Space ==
    [dims |-> dims, mean |-> mean, total |-> total, num_objs |-> num_objs,
     primitive_counter |-> primitive_counter, time_step |-> time_step,
     scene_counter |-> scene_counter,
     cuboid_coordinates |-> cuboid_coordinates,
     coordinates_capacity |-> coordinates_capacity,
     cuboid_shapes |-> cuboid_shapes, shapes_capacity |-> shapes_capacity,
     cuboid_visual_metadata |-> cuboid_visual_metadata,
     cuboid_index |-> cuboid_index, cuboid_names |-> cuboid_names,
     changelog |-> changelog, raised |-> ""]

Commit(S) ==
    /\ dims' = S.dims
    /\ mean' = S.mean
    /\ total' = S.total
    /\ num_objs' = S.num_objs
    /\ primitive_counter' = S.primitive_counter
    /\ time_step' = S.time_step
    /\ scene_counter' = S.scene_counter
    /\ cuboid_coordinates' = S.cuboid_coordinates
    /\ coordinates_capacity' = S.coordinates_capacity
    /\ cuboid_shapes' = S.cuboid_shapes
    /\ shapes_capacity' = S.shapes_capacity
    /\ cuboid_visual_metadata' = S.cuboid_visual_metadata
    /\ cuboid_index' = S.cuboid_index
    /\ cuboid_names' = S.cuboid_names
    /\ changelog' = S.changelog

Raise(S, err) == [S EXCEPT !.raised = err]

\* Space.__init__
Init ==
    /\ dims = <<<<0, 0>>, <<0, 0>>, <<0, 0>>>>
    /\ mean = [sum |-> Zero3, n |-> 1]
    /\ total = Zero3
    /\ num_objs = 0
    /\ primitive_counter = 0
    /\ time_step = 0
    /\ scene_counter = 0
    /\ cuboid_coordinates = <<>>
    /\ coordinates_capacity = InitialCapacity
    /\ cuboid_shapes = <<>>
    /\ shapes_capacity = InitialCapacity
    /\ cuboid_visual_metadata = <<>>
    /\ cuboid_index = [primitives |-> <<>>, composites |-> <<>>]
    /\ cuboid_names = <<>>
    /\ changelog = <<>>
    /\ call = [op |-> "init", name |-> <<>>,
               sel |-> [by |-> "none", coordinate |-> <<>>, name |-> <<>>,
                        timestep_id |-> <<>>, scene_id |-> <<>>],
               kwargs |-> <<>>, translate |-> <<>>, reflect |-> <<>>,
               offset |-> <<>>, scale |-> <<>>, raised |-> "",
               changed |-> TRUE]
    /\ ncalls = 0
    /\ boundary_step = 0

\* ------------------------------------------------------------- SpaceIndex
\* The hierarchical index: one touch log over primitive ids and one over
\* composite slices, every entry tagged with the time-step and the scene of
\* the touch.
AddPrimitiveToIndex(idx, id, t, s) ==
    [idx EXCEPT !.primitives =
        Append(@, [id |-> id, timestep_id |-> t, scene_id |-> s])]

AddCompositeToIndex(idx, slice, t, s) ==
    [idx EXCEPT !.composites =
        Append(@, [id |-> slice, timestep_id |-> t, scene_id |-> s])]

\* The ids of a touch log, in touch order.
LogIds(log) == [k \in 1..Len(log) |-> log[k].id]

\* primitives() / composites(): a fresh iterator over the logged ids.
IndexPrimitives(idx) == LogIds(idx.primitives)
IndexComposites(idx) == LogIds(idx.composites)

\* next(iterator, None) on a fresh iterator.
NextOrNone(ids) == IF Len(ids) = 0 THEN None ELSE Some(ids[1])

ByTimestep(log, t) == LogIds(SelectSeq(log, LAMBDA e : e.timestep_id = t))
ByScene(log, s) == LogIds(SelectSeq(log, LAMBDA e : e.scene_id = s))

GetPrimitivesByTimestep(idx, t) == ByTimestep(idx.primitives, t)
GetCompositesByTimestep(idx, t) == ByTimestep(idx.composites, t)
GetPrimitivesByScene(idx, s) == ByScene(idx.primitives, s)
GetCompositesByScene(idx, s) == ByScene(idx.composites, s)

\* The scene that would be closed holds at least one touch.
CurrentSceneIsValid(idx, expected_num_scenes) ==
    \/ \E k \in 1..Len(idx.primitives) :
            idx.primitives[k].scene_id = expected_num_scenes - 1
    \/ \E k \in 1..Len(idx.composites) :
            idx.composites[k].scene_id = expected_num_scenes - 1

\* ------------------------------------------------------------ add helpers
\* Variant of ExtendVisualMetadata that appends one value per key whatever
\* the number of members.
ExtendVisualMetadata_OneRow(vmd, vm, count) == [key \in (DOMAIN vmd) \cup (DOMAIN vm) |-> IF key \in DOMAIN vm THEN (IF key \in DOMAIN vmd THEN vmd[key] ELSE <<>>) \o <<vm[key]>> ELSE vmd[key]]

\* The loop over cuboid.visual_metadata().items(): append `count` copies of
\* each value to its column, creating the column when the key is new.
ExtendVisualMetadata(vmd, vm, count) ==
    [key \in (DOMAIN vmd) \cup (DOMAIN vm) |->
        IF key \in DOMAIN vm
        THEN (IF key \in DOMAIN vmd THEN vmd[key] ELSE <<>>)
                \o [k \in 1..count |-> vm[key]]
        ELSE vmd[key]]

\* Variant of MergeDims that replaces the running extrema on every call.
MergeDims_Replace(S, box) == box

\* The merge of the running extrema with a bounding box; the first
\* primitive replaces the initial zeros.
MergeDims(S, box) ==
    IF S.primitive_counter = 0
    THEN box
    ELSE [i \in 1..3 |-> <<Min2(S.dims[i][1], box[i][1]),
                           Max2(S.dims[i][2], box[i][2])>>]

\* Space._add_cuboid_primitive; the returned id is S.primitive_counter.
AddCuboidPrimitive(S, cuboid) ==
    LET total1 == VAdd(S.total, Centre2(cuboid.faces[1]))
        S1 == [S EXCEPT
                !.total = total1,
                !.mean = [sum |-> total1, n |-> S.num_objs + 1],
                !.dims = MergeDims(S, BoundingBox(cuboid)),
                !.coordinates_capacity =
                    IF S.primitive_counter >= @ THEN 2 * @ ELSE @]
    IN  IF S.primitive_counter >= S.shapes_capacity
        THEN Raise(S1, "IndexError")
        ELSE [S1 EXCEPT
                !.cuboid_shapes = Append(@, cuboid.shape),
                !.cuboid_coordinates = Append(@, cuboid.faces[1]),
                !.cuboid_visual_metadata =
                    ExtendVisualMetadata(@, cuboid.vm, 1),
                !.cuboid_index =
                    AddPrimitiveToIndex(@, S.primitive_counter, S.time_step,
                                        S.scene_counter),
                !.primitive_counter = @ + 1]

\* min / max over composite.faces[0][0] and composite.faces[-1][-1].
CompositeExtrema(composite) ==
    LET first == composite.faces[1]
        last == composite.faces[Len(composite.faces)]
    IN  [i \in 1..3 |-> <<Min2(BoxMin(first, i), BoxMin(last, i)),
                          Max2(BoxMax(first, i), BoxMax(last, i))>>]

\* Doubled mean of all vertices of a composite: the members are unit cubes
\* filling the box between the first base and the last far corner.
CompositeCentre2(composite) ==
    VAdd(composite.faces[1].base, composite.faces[Len(composite.faces)].far)

\* while (2 * current_no_of_entries) < num_cubes: current_no_of_entries *= 2
RECURSIVE GrowEntries(_, _)
GrowEntries(entries, num_cubes) ==
    IF 2 * entries < num_cubes
    THEN GrowEntries(2 * entries, num_cubes)
    ELSE entries

\* Space._add_cuboid_composite; the returned slice is
\* [S.primitive_counter, S.primitive_counter + num_cubes).
AddCuboidComposite(S, composite, style) ==
    LET num_cubes == Len(composite.faces)
        total1 == VAdd(S.total, CompositeCentre2(composite))
        base == S.primitive_counter
        offset == base + num_cubes
        resize == (S.primitive_counter + num_cubes) >= S.coordinates_capacity
        newcap == 2 * GrowEntries(S.coordinates_capacity, num_cubes)
        S1 == [S EXCEPT
                !.total = total1,
                !.mean = [sum |-> total1, n |-> S.num_objs + 1],
                !.dims = MergeDims(S, CompositeExtrema(composite)),
                !.coordinates_capacity = IF resize THEN newcap ELSE @,
                !.shapes_capacity = IF resize THEN newcap ELSE @]
        S2 == [S1 EXCEPT
                !.cuboid_coordinates = @ \o composite.faces,
                \* a slice assignment stores the rows that exist
                !.cuboid_shapes = @ \o
                    [k \in 1..num_cubes |->
                        IF base + k - 1 < S1.shapes_capacity
                        THEN composite.shape ELSE <<>>],
                !.cuboid_visual_metadata =
                    ExtendVisualMetadata(@, composite.vm, num_cubes),
                !.primitive_counter = @ + num_cubes,
                !.cuboid_index =
                    AddCompositeToIndex(@, Slice(base, offset), S.time_step,
                                        S.scene_counter)]
    IN  IF offset > S1.coordinates_capacity
        THEN Raise(S1, "ValueError")
        ELSE IF style = "classic"
        THEN Raise(S2, "NotImplementedError")
        ELSE S2

\* Variant of AddName without the check for an existing entry: the name is
\* bound again.
AddName_Rebind(S, name, object_ids) ==
    IF IsNone(name)
    THEN S
    ELSE IF IsNone(object_ids[1]) /\ IsNone(object_ids[2])
    THEN Raise(S, "Exception")
    ELSE [S EXCEPT !.cuboid_names =
            [n \in (DOMAIN @) \cup {name[1]} |->
                IF n = name[1] THEN object_ids ELSE @[n]]]

\* Space._add_name
AddName(S, name, object_ids) ==
    IF IsNone(name)
    THEN S
    ELSE IF name[1] \in DOMAIN S.cuboid_names
    THEN Raise(S, "Exception")
    ELSE IF IsNone(object_ids[1]) /\ IsNone(object_ids[2])
    THEN Raise(S, "Exception")
    ELSE [S EXCEPT !.cuboid_names =
            [n \in (DOMAIN @) \cup {name[1]} |->
                IF n = name[1] THEN object_ids ELSE @[n]]]

\* Space._update_bounds over the rows [start, stop).
UpdateBounds(S, start, stop) ==
    LET given_min(i) ==
            CHOOSE m \in {BoxMin(Row(S.cuboid_coordinates, id), i) :
                            id \in start..(stop - 1)} :
                \A id \in start..(stop - 1) :
                    m <= BoxMin(Row(S.cuboid_coordinates, id), i)
        given_max(i) ==
            CHOOSE m \in {BoxMax(Row(S.cuboid_coordinates, id), i) :
                            id \in start..(stop - 1)} :
                \A id \in start..(stop - 1) :
                    m >= BoxMax(Row(S.cuboid_coordinates, id), i)
    IN  [S EXCEPT !.dims =
            [i \in 1..3 |-> <<Min2(S.dims[i][1], given_min(i)),
                              Max2(S.dims[i][2], given_max(i))>>]]

\* Variant of FinishAddition whose entry is stamped with the next time-step.
FinishAddition_StampsNext(S, start, stop) ==
    UpdateBounds(
        [S EXCEPT !.num_objs = @ + 1,
                  !.changelog = Append(@, [kind |-> "Addition",
                                           timestep_id |-> S.time_step + 1,
                                           name |-> None]),
                  !.time_step = @ + 1],
        start, stop)

\* The tail of add_cube / add_cuboid / add_composite once the object is
\* stored and named.
FinishAddition(S, start, stop) ==
    UpdateBounds(
        [S EXCEPT !.num_objs = @ + 1,
                  !.changelog = Append(@, [kind |-> "Addition",
                                           timestep_id |-> S.time_step,
                                           name |-> None]),
                  !.time_step = @ + 1],
        start, stop)

\* add_cube and add_cuboid share one body.
AddPrimitiveObject(S, cuboid) ==
    LET primitive_id == S.primitive_counter
        S1 == AddCuboidPrimitive(S, cuboid)
        S2 == AddName(S1, cuboid.name, <<Some(<<primitive_id>>), None>>)
    IN  IF S1.raised # "" THEN S1
        ELSE IF S2.raised # "" THEN S2
        ELSE FinishAddition(S2, primitive_id, primitive_id + 1)

AddCompositeObject(S, composite, style) ==
    LET composite_id == Slice(S.primitive_counter,
                              S.primitive_counter + Len(composite.faces))
        S1 == AddCuboidComposite(S, composite, style)
        S2 == AddName(S1, composite.name, <<None, Some(<<composite_id>>)>>)
    IN  IF S1.raised # "" THEN S1
        ELSE IF S2.raised # "" THEN S2
        ELSE FinishAddition(S2, composite_id.start, composite_id.stop)

\* --------------------------------------------------------------- selection
\* A selection result: the primitive ids, the composite slices and the
\* error raised ("" when none).
Selection(prims, comps) == [prims |-> prims, comps |-> comps, raised |-> ""]
SelectionError(err) == [prims |-> <<>>, comps |-> <<>>, raised |-> err]

\* The ids idx in range(primitive_counter) whose vertex [0, 0] equals the
\* converted coordinate, ascending.
MatchingBaseVectors(S, coordinate) ==
    LET hit(idx) == Row(S.cuboid_coordinates, idx).base = ConvertBasis(coordinate)
        F[n \in 0..S.primitive_counter] ==
            IF n = 0 THEN <<>>
            ELSE IF hit(n - 1) THEN Append(F[n - 1], n - 1) ELSE F[n - 1]
    IN  F[S.primitive_counter]

\* Variant of ClassifyMatches that takes every matching row for a
\* standalone primitive.
ClassifyMatches_AnyMatch(S, matching, k, pid, cslice, prims, comps) ==
    Selection(matching, <<>>)

\* The loop of _select_by_coordinate over matching_base_vectors[k..].
\* Every advance calls primitives() / composites() again.
RECURSIVE ClassifyMatches(_, _, _, _, _, _, _)
ClassifyMatches(S, matching, k, primitive_id, composite_slice, prims, comps) ==
    IF k > Len(matching)
    THEN Selection(prims, comps)
    ELSE LET idx == matching[k]
             isPrim == ~IsNone(primitive_id) /\ primitive_id[1] = idx
             isComp == ~IsNone(composite_slice) /\ composite_slice[1].start = idx
         IN  ClassifyMatches(S, matching, k + 1,
                IF isPrim THEN NextOrNone(IndexPrimitives(S.cuboid_index))
                          ELSE primitive_id,
                IF isComp THEN NextOrNone(IndexComposites(S.cuboid_index))
                          ELSE composite_slice,
                IF isPrim THEN Append(prims, primitive_id[1]) ELSE prims,
                IF isComp THEN Append(comps, composite_slice[1]) ELSE comps)

\* Space._select_by_coordinate (the coordinate is three-dimensional).
SelectByCoordinate(S, coordinate) ==
    ClassifyMatches(S, MatchingBaseVectors(S, coordinate), 1,
                    NextOrNone(IndexPrimitives(S.cuboid_index)),
                    NextOrNone(IndexComposites(S.cuboid_index)),
                    <<>>, <<>>)

\* Variant of SelectByName where a name bound to a composite selects the
\* composite registered last.
SelectByName_LatestComposite(S, name) ==
    IF name \notin DOMAIN S.cuboid_names
    THEN SelectionError("ValueError")
    ELSE LET ids == S.cuboid_names[name]
             comps == S.cuboid_index.composites
         IN  Selection(IF IsNone(ids[1]) THEN <<>> ELSE ids[1][1],
                       IF IsNone(ids[2]) THEN <<>>
                       ELSE <<comps[Len(comps)].id>>)

\* Variant of SelectByName that answers an unknown name with the empty
\* selection.
SelectByName_EmptyForUnknown(S, name) ==
    IF name \notin DOMAIN S.cuboid_names
    THEN Selection(<<>>, <<>>)
    ELSE LET ids == S.cuboid_names[name]
         IN  Selection(IF IsNone(ids[1]) THEN <<>> ELSE ids[1][1],
                       IF IsNone(ids[2]) THEN <<>> ELSE ids[2][1])

\* Space._select_by_name
SelectByName(S, name) ==
    IF name \notin DOMAIN S.cuboid_names
    THEN SelectionError("ValueError")
    ELSE LET ids == S.cuboid_names[name]
         IN  Selection(IF IsNone(ids[1]) THEN <<>> ELSE ids[1][1],
                       IF IsNone(ids[2]) THEN <<>> ELSE ids[2][1])

\* Variant of SelectByTimestep without the upper bound on the time-step.
SelectByTimestep_NoUpperBound(S, timestep) ==
    IF timestep < 0
    THEN SelectionError("ValueError")
    ELSE Selection(GetPrimitivesByTimestep(S.cuboid_index, timestep),
                   GetCompositesByTimestep(S.cuboid_index, timestep))

\* Space._select_by_timestep
SelectByTimestep(S, timestep) ==
    IF (timestep < 0) \/ (timestep > S.time_step)
    THEN SelectionError("ValueError")
    ELSE Selection(GetPrimitivesByTimestep(S.cuboid_index, timestep),
                   GetCompositesByTimestep(S.cuboid_index, timestep))

SeqRange(seq) == {seq[k] : k \in 1..Len(seq)}

\* sorted(list(set(ids))) over integers.
RECURSIVE SortedInts(_)
SortedInts(set) ==
    IF set = {} THEN <<>>
    ELSE LET m == CHOOSE x \in set : \A y \in set : x <= y
         IN  <<m>> \o SortedInts(set \ {m})

\* sorted(...) over slices: by start, then by stop.
RECURSIVE SortedSlices(_)
SortedSlices(set) ==
    IF set = {} THEN <<>>
    ELSE LET m == CHOOSE x \in set : \A y \in set :
                    \/ x.start < y.start
                    \/ (x.start = y.start /\ x.stop <= y.stop)
         IN  <<m>> \o SortedSlices(set \ {m})

\* Variant of SelectByScene that returns the index's lists as they are.
SelectByScene_NoDedup(S, scene) ==
    IF (scene < 0) \/ (scene > S.scene_counter)
    THEN SelectionError("ValueError")
    ELSE Selection(GetPrimitivesByScene(S.cuboid_index, scene),
                   GetCompositesByScene(S.cuboid_index, scene))

\* Space._select_by_scene
SelectByScene(S, scene) ==
    IF (scene < 0) \/ (scene > S.scene_counter)
    THEN SelectionError("ValueError")
    ELSE Selection(
            SortedInts(SeqRange(GetPrimitivesByScene(S.cuboid_index, scene))),
            SortedSlices(SeqRange(GetCompositesByScene(S.cuboid_index, scene))))

\* A selector is [by, coordinate, name, timestep_id, scene_id], the field
\* named by `by` set and the others None.
BySelector(by, val) ==
    [by |-> by,
     coordinate |-> IF by = "coordinate" THEN Some(val) ELSE None,
     name |-> IF by = "name" THEN Some(val) ELSE None,
     timestep_id |-> IF by = "timestep" THEN Some(val) ELSE None,
     scene_id |-> IF by = "scene" THEN Some(val) ELSE None]

Select(S, sel) ==
    CASE sel.by = "coordinate" -> SelectByCoordinate(S, sel.coordinate[1])
      [] sel.by = "name" -> SelectByName(S, sel.name[1])
      [] sel.by = "timestep" -> SelectByTimestep(S, sel.timestep_id[1])
      [] sel.by = "scene" -> SelectByScene(S, sel.scene_id[1])

NonZeroSelection(r) == Len(r.prims) > 0 \/ Len(r.comps) > 0

\* The touches that _mutate_by_ids and _transform_by_ids record.
RECURSIVE TouchPrimitives(_, _, _, _)
TouchPrimitives(idx, prims, t, s) ==
    IF prims = <<>> THEN idx
    ELSE TouchPrimitives(AddPrimitiveToIndex(idx, Head(prims), t, s),
                         Tail(prims), t, s)

\* Variant of TouchComposites that re-registers each range without its last
\* id.
TouchComposites_Shrunk(idx, comps, t, s) == [idx EXCEPT !.composites = @ \o [k \in 1..Len(comps) |-> [id |-> Slice(comps[k].start, comps[k].stop - 1), timestep_id |-> t, scene_id |-> s]]]

RECURSIVE TouchComposites(_, _, _, _)
TouchComposites(idx, comps, t, s) ==
    IF comps = <<>> THEN idx
    ELSE TouchComposites(AddCompositeToIndex(idx, Head(comps), t, s),
                         Tail(comps), t, s)

\* Variant of TouchSelection that tags every touch with scene 0.
TouchSelection_FirstScene(S, prims, comps) == [S EXCEPT !.cuboid_index = TouchComposites(TouchPrimitives(@, prims, S.time_step, 0), comps, S.time_step, 0)]

TouchSelection(S, prims, comps) ==
    [S EXCEPT !.cuboid_index =
        TouchComposites(TouchPrimitives(@, prims, S.time_step, S.scene_counter),
                        comps, S.time_step, S.scene_counter)]

\* ---------------------------------------------------------------- mutation
\* for primitive_id in primitive_ids: read the old value, store the new.
RECURSIVE MutatePrimitives(_, _, _, _)
MutatePrimitives(col, old, prims, value) ==
    IF prims = <<>>
    THEN [col |-> col, old |-> old]
    ELSE MutatePrimitives([col EXCEPT ![Head(prims) + 1] = value],
                          Append(old, Row(col, Head(prims))),
                          Tail(prims), value)

\* Variant of MutateComposites that stores the new value in the first member
\* of each slice only.
MutateComposites_FirstOnly(col, old, comps, value) ==
    [col |-> [k \in 1..Len(col) |->
                IF \E j \in 1..Len(comps) : comps[j].start + 1 = k
                THEN value ELSE col[k]],
     old |-> old \o [j \in 1..Len(comps) |-> Row(col, comps[j].start)]]

\* for composite_id in composite_ids: read the first member's old value,
\* store the new value in every row of the slice.
RECURSIVE MutateComposites(_, _, _, _)
MutateComposites(col, old, comps, value) ==
    IF comps = <<>>
    THEN [col |-> col, old |-> old]
    ELSE LET c == Head(comps)
         IN  MutateComposites(
                [k \in 1..Len(col) |->
                    IF c.start < k /\ k <= c.stop THEN value ELSE col[k]],
                Append(old, Row(col, c.start)),
                Tail(comps), value)

\* The key loop of _mutate_by_ids over kwargs[k..]; kwargs is the sequence
\* of <<key, value>> in the order the caller gave them.
RECURSIVE MutateKeys(_, _, _, _, _, _)
MutateKeys(S, before, prims, comps, kwargs, k) ==
    IF k > Len(kwargs)
    THEN [S |-> S, before |-> before]
    ELSE LET key == kwargs[k][1]
             value == kwargs[k][2]
         IN  IF key \notin DOMAIN S.cuboid_visual_metadata
             THEN [S |-> Raise(S, "KeyError"), before |-> before]
             ELSE LET p == MutatePrimitives(S.cuboid_visual_metadata[key],
                                            <<>>, prims, value)
                      c == MutateComposites(p.col, p.old, comps, value)
                  IN  MutateKeys(
                        [S EXCEPT !.cuboid_visual_metadata[key] = c.col],
                        [x \in (DOMAIN before) \cup {key} |->
                            IF x = key THEN c.old ELSE before[x]],
                        prims, comps, kwargs, k + 1)

\* Variant of MutateByIds that forgets self.time_step += 1.
MutateByIds_NoTick(S, prims, comps, kwargs) ==
    LET m == MutateKeys(S, <<>>, prims, comps, kwargs, 1)
    IN  IF m.S.raised # ""
        THEN m
        ELSE [S |-> TouchSelection(m.S, prims, comps), before |-> m.before]

\* Space._mutate_by_ids: [S, before]; S.raised is set when a key is unknown.
MutateByIds(S, prims, comps, kwargs) ==
    LET m == MutateKeys(S, <<>>, prims, comps, kwargs, 1)
    IN  IF m.S.raised # ""
        THEN m
        ELSE [S |-> [TouchSelection(m.S, prims, comps)
                        EXCEPT !.time_step = @ + 1],
              before |-> m.before]

\* The changelog entry Mutation(subject=..., <selector>=...).
MutationEntry(subject, sel) ==
    [kind |-> "Mutation", subject |-> subject, name |-> sel.name,
     coordinate |-> sel.coordinate, timestep_id |-> sel.timestep_id,
     scene_id |-> sel.scene_id]

\* Variant of MutateBy that tests the kwargs only, not the selection.
MutateBy_NoEmptyCheck(S, sel, kwargs) ==
    LET r == Select(S, sel)
        m == MutateByIds(S, r.prims, r.comps, kwargs)
    IN  IF r.raised # "" THEN Raise(S, r.raised)
        ELSE IF ~(Len(kwargs) > 0) THEN S
        ELSE IF m.S.raised # "" THEN m.S
        ELSE [m.S EXCEPT !.changelog = Append(@, MutationEntry(m.before, sel))]

\* Space.mutate_by_coordinate / _by_name / _by_timestep / _by_scene: the four
\* bodies differ in the selector only.
MutateBy(S, sel, kwargs) ==
    LET r == Select(S, sel)
        m == MutateByIds(S, r.prims, r.comps, kwargs)
    IN  IF r.raised # "" THEN Raise(S, r.raised)
        ELSE IF ~(NonZeroSelection(r) /\ Len(kwargs) > 0) THEN S
        ELSE IF m.S.raised # "" THEN m.S
        ELSE [m.S EXCEPT !.changelog = Append(@, MutationEntry(m.before, sel))]

\* --------------------------------------------------------------- transform
\* func applied to one row: obj + translate or obj * reflect.
ApplyFunc(box, func) ==
    IF func.name = "translate"
    THEN [base |-> VAdd(box.base, func.val), far |-> VAdd(box.far, func.val)]
    ELSE [base |-> VMul(box.base, func.val), far |-> VMul(box.far, func.val)]

RECURSIVE TransformPrimitives(_, _, _)
TransformPrimitives(coords, prims, func) ==
    IF prims = <<>> THEN coords
    ELSE TransformPrimitives(
            [coords EXCEPT ![Head(prims) + 1] = ApplyFunc(@, func)],
            Tail(prims), func)

RECURSIVE TransformComposites(_, _, _)
TransformComposites(coords, comps, func) ==
    IF comps = <<>> THEN coords
    ELSE LET c == Head(comps)
         IN  TransformComposites(
                [k \in 1..Len(coords) |->
                    IF c.start < k /\ k <= c.stop
                    THEN ApplyFunc(coords[k], func) ELSE coords[k]],
                Tail(comps), func)

\* Variant of TransformByIds that applies func to every stored row.
TransformByIds_AllRows(S, prims, comps, func) ==
    LET S1 == [S EXCEPT !.cuboid_coordinates =
                [k \in 1..Len(@) |-> ApplyFunc(@[k], func)]]
    IN  [TouchSelection(S1, prims, comps) EXCEPT !.time_step = @ + 1]

\* Space._transform_by_ids
TransformByIds(S, prims, comps, func) ==
    LET S1 == [S EXCEPT !.cuboid_coordinates =
                TransformComposites(TransformPrimitives(@, prims, func),
                                    comps, func)]
    IN  [TouchSelection(S1, prims, comps) EXCEPT !.time_step = @ + 1]

\* Variant of TransformEntry that records the vector with its sign flipped.
TransformEntry_Negated(transform, transform_name, sel) ==
    [kind |-> "Transform", transform |-> VNeg(transform),
     transform_name |-> transform_name, name |-> sel.name,
     coordinate |-> sel.coordinate, timestep_id |-> sel.timestep_id,
     scene_id |-> sel.scene_id]

\* The changelog entry Transform(<selector>=..., transform=..., ...).
TransformEntry(transform, transform_name, sel) ==
    [kind |-> "Transform", transform |-> transform,
     transform_name |-> transform_name, name |-> sel.name,
     coordinate |-> sel.coordinate, timestep_id |-> sel.timestep_id,
     scene_id |-> sel.scene_id]

\* Variant of NonZeroTransform that takes every vector for a transform.
NonZeroTransform_Always(val) == val = val

\* np.any(val) of the argument that is set.
NonZeroTransform(val) == NpAny(val)

\* Variant of TransformBy that tests the transform only, not the selection.
TransformBy_NoSelectionCheck(S, sel, translate, reflect) ==
    LET r == Select(S, sel)
        exactly_one_set == (IsNone(translate) # IsNone(reflect))
        val == IF ~IsNone(reflect) THEN reflect[1] ELSE translate[1]
        func == IF ~IsNone(reflect)
                THEN [name |-> "reflect", val |-> reflect[1]]
                ELSE [name |-> "translate", val |-> translate[1]]
        entry == IF ~IsNone(reflect)
                 THEN TransformEntry(reflect[1], "reflection", sel)
                 ELSE TransformEntry(VNeg(translate[1]), "translation", sel)
    IN  IF r.raised # "" THEN Raise(S, r.raised)
        ELSE IF ~exactly_one_set THEN Raise(S, "ValueError")
        ELSE IF ~NonZeroTransform(val) THEN S
        ELSE TransformByIds([S EXCEPT !.changelog = Append(@, entry)],
                            r.prims, r.comps, func)

\* Variant of TransformBy whose entry records the translation as applied.
TransformBy_RecordsApplied(S, sel, translate, reflect) ==
    LET r == Select(S, sel)
        exactly_one_set == (IsNone(translate) # IsNone(reflect))
        val == IF ~IsNone(reflect) THEN reflect[1] ELSE translate[1]
        func == IF ~IsNone(reflect)
                THEN [name |-> "reflect", val |-> reflect[1]]
                ELSE [name |-> "translate", val |-> translate[1]]
        entry == IF ~IsNone(reflect)
                 THEN TransformEntry(reflect[1], "reflection", sel)
                 ELSE TransformEntry(translate[1], "translation", sel)
    IN  IF r.raised # "" THEN Raise(S, r.raised)
        ELSE IF ~exactly_one_set THEN Raise(S, "ValueError")
        ELSE IF ~(NonZeroSelection(r) /\ NonZeroTransform(val)) THEN S
        ELSE TransformByIds([S EXCEPT !.changelog = Append(@, entry)],
                            r.prims, r.comps, func)

\* Space.transform_by_coordinate / _by_name / _by_timestep / _by_scene.
\* translate and reflect are optional vectors; when both are given the
\* check for exactly one raises.
TransformBy(S, sel, translate, reflect) ==
    LET r == Select(S, sel)
        exactly_one_set == (IsNone(translate) # IsNone(reflect))
        val == IF ~IsNone(reflect) THEN reflect[1] ELSE translate[1]
        func == IF ~IsNone(reflect)
                THEN [name |-> "reflect", val |-> reflect[1]]
                ELSE [name |-> "translate", val |-> translate[1]]
        entry == IF ~IsNone(reflect)
                 THEN TransformEntry(reflect[1], "reflection", sel)
                 ELSE TransformEntry(VNeg(translate[1]), "translation", sel)
    IN  IF r.raised # "" THEN Raise(S, r.raised)
        ELSE IF ~exactly_one_set THEN Raise(S, "ValueError")
        ELSE IF ~(NonZeroSelection(r) /\ NonZeroTransform(val)) THEN S
        ELSE TransformByIds([S EXCEPT !.changelog = Append(@, entry)],
                            r.prims, r.comps, func)

\* transform_by_coordinate / _name / _timestep / _scene declare the selector,
\* translate and reflect and nothing else: a call with scale=... binds no
\* parameter and Python raises TypeError before the body runs.
TransformWithScale(S, sel, scale) == Raise(S, "TypeError")

\* ------------------------------------------------------------------- clone
\* An override is <<key, form, values>>: form "scalar" carries one value in
\* values[1], form "list" carries the caller's list.
\* The error the interleaving loop raises, "" when it completes.
InterleaveError(S, total_number_of_ids, kwargs) ==
    IF \E k \in 1..Len(kwargs) : kwargs[k][1] \notin DOMAIN S.cuboid_visual_metadata
    THEN "KeyError"
    ELSE IF \E k \in 1..Len(kwargs) :
                kwargs[k][2] = "list" /\ Len(kwargs[k][3]) < total_number_of_ids
    THEN "IndexError"
    ELSE ""

\* interleaved_kwargs[i] for the 0-based position i.
KwargsForId(kwargs, i) ==
    [key \in {kwargs[k][1] : k \in 1..Len(kwargs)} |->
        LET k == CHOOSE j \in 1..Len(kwargs) : kwargs[j][1] = key
        IN  IF kwargs[k][2] = "list" THEN kwargs[k][3][i + 1] ELSE kwargs[k][3][1]]

\* {key: column[row]} | vis_met_data
InheritedMetadata(S, row, vis_met_data) ==
    [key \in (DOMAIN S.cuboid_visual_metadata) \cup (DOMAIN vis_met_data) |->
        IF key \in DOMAIN vis_met_data
        THEN vis_met_data[key]
        ELSE Row(S.cuboid_visual_metadata[key], row)]

\* The first loop of clone_by_offset over primitive_ids[k..]; zip pairs the
\* k-th id with interleaved_kwargs[k - 1].
RECURSIVE ClonePrimitives(_, _, _, _, _)
ClonePrimitives(S, prims, k, offset, kwargs) ==
    IF k > Len(prims) \/ S.raised # ""
    THEN S
    ELSE LET primitive == prims[k]
             shape == Row(S.cuboid_shapes, primitive)
             transformed_base ==
                ConvertBasis(Row(S.cuboid_coordinates, primitive).base)
             cuboid == Cuboid(VAdd(transformed_base, offset), shape, None,
                              InheritedMetadata(S, primitive,
                                                KwargsForId(kwargs, k - 1)))
             S1 == AddCuboidPrimitive(S, cuboid)
         IN  IF shape = <<>>
             THEN Raise(S, "IndexError")
             ELSE IF S1.raised # ""
             THEN S1
             ELSE ClonePrimitives([S1 EXCEPT !.num_objs = @ + 1],
                                  prims, k + 1, offset, kwargs)

\* The second loop of clone_by_offset over composite_ids[k..]; zip again
\* starts at interleaved_kwargs[0].
RECURSIVE CloneComposites(_, _, _, _, _)
CloneComposites(S, comps, k, offset, kwargs) ==
    IF k > Len(comps) \/ S.raised # ""
    THEN S
    ELSE LET start == comps[k].start
             shape == Row(S.cuboid_shapes, start)
             transformed_base ==
                ConvertBasis(Row(S.cuboid_coordinates, start).base)
             composite == CompositeCube(VAdd(transformed_base, offset), shape,
                              None,
                              InheritedMetadata(S, start,
                                                KwargsForId(kwargs, k - 1)))
             S1 == AddCuboidComposite(S, composite, "default")
         IN  IF shape = <<>>
             THEN Raise(S, "IndexError")
             ELSE IF S1.raised # ""
             THEN S1
             ELSE CloneComposites([S1 EXCEPT !.num_objs = @ + 1],
                                  comps, k + 1, offset, kwargs)

\* How many of coordinate, name, timestep, scene are not None.
SelectorsSet(sel) ==
    (IF IsNone(sel.coordinate) THEN 0 ELSE 1)
    + (IF IsNone(sel.name) THEN 0 ELSE 1)
    + (IF IsNone(sel.timestep_id) THEN 0 ELSE 1)
    + (IF IsNone(sel.scene_id) THEN 0 ELSE 1)

\* Variant of CloneByOffset that appends one Addition entry per clone.
CloneByOffset_EntryPerClone(S, offset, sel, kwargs) ==
    LET r == Select(S, sel)
        total_number_of_ids == Len(r.prims) + Len(r.comps)
        err == InterleaveError(S, total_number_of_ids, kwargs)
        S1 == ClonePrimitives(S, r.prims, 1, offset, kwargs)
        S2 == CloneComposites(S1, r.comps, 1, offset, kwargs)
        entry == [kind |-> "Addition", timestep_id |-> S2.time_step,
                  name |-> None]
    IN  IF SelectorsSet(sel) # 1 THEN Raise(S, "ValueError")
        ELSE IF r.raised # "" THEN Raise(S, r.raised)
        ELSE IF total_number_of_ids = 0 THEN S
        ELSE IF err # "" THEN Raise(S, err)
        ELSE IF S2.raised # "" THEN S2
        ELSE UpdateBounds(
                [S2 EXCEPT !.changelog =
                                @ \o [k \in 1..total_number_of_ids |-> entry],
                           !.time_step = @ + 1],
                S.primitive_counter, S2.primitive_counter)

\* Variant of CloneByOffset that rejects an empty selection.
CloneByOffset_EmptyRaises(S, offset, sel, kwargs) ==
    LET r == Select(S, sel)
        total_number_of_ids == Len(r.prims) + Len(r.comps)
        err == InterleaveError(S, total_number_of_ids, kwargs)
        S1 == ClonePrimitives(S, r.prims, 1, offset, kwargs)
        S2 == CloneComposites(S1, r.comps, 1, offset, kwargs)
    IN  IF SelectorsSet(sel) # 1 THEN Raise(S, "ValueError")
        ELSE IF r.raised # "" THEN Raise(S, r.raised)
        ELSE IF total_number_of_ids = 0 THEN Raise(S, "ValueError")
        ELSE IF err # "" THEN Raise(S, err)
        ELSE IF S2.raised # "" THEN S2
        ELSE UpdateBounds(
                [S2 EXCEPT !.changelog = Append(@, [kind |-> "Addition",
                                                    timestep_id |-> S2.time_step,
                                                    name |-> None]),
                           !.time_step = @ + 1],
                S.primitive_counter, S2.primitive_counter)

\* Variant of CloneByOffset without the check for exactly one selector: the
\* last of coordinate, name, timestep, scene that is set selects.
CloneByOffset_LastSelectorWins(S, offset, sel, kwargs) ==
    LET r == IF ~IsNone(sel.scene_id)
                THEN SelectByScene(S, sel.scene_id[1])
             ELSE IF ~IsNone(sel.timestep_id)
                THEN SelectByTimestep(S, sel.timestep_id[1])
             ELSE IF ~IsNone(sel.name)
                THEN SelectByName(S, sel.name[1])
             ELSE IF ~IsNone(sel.coordinate)
                THEN SelectByCoordinate(S, sel.coordinate[1])
             ELSE SelectionError("UnboundLocalError")
        total_number_of_ids == Len(r.prims) + Len(r.comps)
        err == InterleaveError(S, total_number_of_ids, kwargs)
        S1 == ClonePrimitives(S, r.prims, 1, offset, kwargs)
        S2 == CloneComposites(S1, r.comps, 1, offset, kwargs)
    IN  IF r.raised # "" THEN Raise(S, r.raised)
        ELSE IF total_number_of_ids = 0 THEN S
        ELSE IF err # "" THEN Raise(S, err)
        ELSE IF S2.raised # "" THEN S2
        ELSE UpdateBounds(
                [S2 EXCEPT !.changelog = Append(@, [kind |-> "Addition",
                                                    timestep_id |-> S2.time_step,
                                                    name |-> None]),
                           !.time_step = @ + 1],
                S.primitive_counter, S2.primitive_counter)

\* Space.clone_by_offset
CloneByOffset(S, offset, sel, kwargs) ==
    LET r == Select(S, sel)
        total_number_of_ids == Len(r.prims) + Len(r.comps)
        err == InterleaveError(S, total_number_of_ids, kwargs)
        S1 == ClonePrimitives(S, r.prims, 1, offset, kwargs)
        S2 == CloneComposites(S1, r.comps, 1, offset, kwargs)
        \* the new ids are the rows appended since S
        min_id == S.primitive_counter
        max_id == S2.primitive_counter - 1
    IN  IF SelectorsSet(sel) # 1 THEN Raise(S, "ValueError")
        ELSE IF r.raised # "" THEN Raise(S, r.raised)
        ELSE IF total_number_of_ids = 0 THEN S
        ELSE IF err # "" THEN Raise(S, err)
        ELSE IF S2.raised # "" THEN S2
        ELSE UpdateBounds(
                [S2 EXCEPT !.changelog = Append(@, [kind |-> "Addition",
                                                    timestep_id |-> S2.time_step,
                                                    name |-> None]),
                           !.time_step = @ + 1],
                min_id, max_id + 1)

\* ---------------------------------------------------------------- snapshot
\* Variant of Snapshot that validates the scene and leaves scene_counter.
Snapshot_KeepsCounter(S) ==
    IF ~CurrentSceneIsValid(S.cuboid_index, S.scene_counter + 1)
    THEN Raise(S, "Exception")
    ELSE S

\* Space.snapshot
Snapshot(S) ==
    IF ~CurrentSceneIsValid(S.cuboid_index, S.scene_counter + 1)
    THEN Raise(S, "Exception")
    ELSE [S EXCEPT !.scene_counter = @ + 1]

\* ------------------------------------------------------------------ inputs
\* The base vector of the objects added, in the caller's basis.
BasePoint == <<0, 1, 2>>
\* Selection coordinates: the base vector, and where the translation below
\* moves it.
Points == {BasePoint, <<2, 1, 3>>}
Names == {"foo"}
NameArgs == {None} \cup {Some(n) : n \in Names}
\* Names a caller may select by: the bindable ones and one never bound.
NameSelectors == Names \cup {"nope"}
TimestepSelectors == {0 - 1, 0, 1}
SceneSelectors == (0 - 1)..MaxScenes

CuboidShape == <<1, 2, 1>>
CompositeShape == <<2, 1, 1>>
\* style "classic" raises NotImplementedError after the composite is stored.
Styles == {"default", "classic"}

\* The visual metadata an object is created with.
CubeMetadata == [facecolor |-> "none", alpha |-> "0.0"]
CompositeMetadata == [facecolor |-> "yellow", alpha |-> "0.3"]

\* kwargs of a mutate_* call, in the caller's order; "hatch" is no column.
MutateKwargs ==
    {<<>>,
     <<<<"alpha", "1.0">>, <<"facecolor", "red">>>>,
     <<<<"facecolor", "red">>, <<"hatch", "x">>>>,
     <<<<"hatch", "x">>, <<"facecolor", "red">>>>}

\* (translate, reflect) of a transform_* call; the vectors act in the
\* storage basis.
TransformArgs ==
    {<<Some(<<2, 1, 0>>), None>>,
     <<Some(Zero3), None>>,
     <<None, Some(<<1, 0 - 1, 0 - 1>>)>>,
     <<None, Some(Ones3)>>,
     <<None, Some(<<2, 1, 1>>)>>,
     <<None, None>>,
     <<Some(<<2, 1, 0>>), Some(Ones3)>>}

\* The scale keyword the tests pass to transform_by_*.
Scales == {<<2, 2, 2>>}

Offsets == {<<0, 3, 0>>}
\* Overrides of a clone_by_offset call.
CloneKwargs ==
    {<<>>,
     <<<<"facecolor", "scalar", <<"blue">>>>>>,
     <<<<"facecolor", "list", <<"blue">>>>>>,
     <<<<"facecolor", "list", <<"blue", "green">>>>>>,
     <<<<"hatch", "scalar", <<"x">>>>>>}

NoSelector ==
    [by |-> "none", coordinate |-> None, name |-> None,
     timestep_id |-> None, scene_id |-> None]

\* The selector arguments of clone_by_offset: exactly one set, none set, or
\* two set.
CloneSelectors ==
    {BySelector("coordinate", c) : c \in Points}
    \cup {BySelector("name", n) : n \in NameSelectors}
    \cup {BySelector("timestep", t) : t \in TimestepSelectors}
    \cup {BySelector("scene", s) : s \in SceneSelectors}
    \cup {NoSelector}
    \cup {[by |-> "many", coordinate |-> Some(c), name |-> Some(n),
           timestep_id |-> None, scene_id |-> None] :
            c \in Points, n \in Names}

\* The call a step performed: the method, its arguments, the exception that
\* propagated ("" when the method returned) and whether the call changed
\* the store.
Call(op, name, sel, kwargs, translate, reflect, S) ==
    [op |-> op, name |-> name, sel |-> sel, kwargs |-> kwargs,
     translate |-> translate, reflect |-> reflect, offset |-> None,
     scale |-> None,
     raised |-> S.raised,
     changed |-> ([S EXCEPT !.raised = ""] # Space)]

\* ----------------------------------------------------------------- actions
\* Calls are enumerated from the initial state and from every state whose
\* last call changed the store.  A call that left the store unchanged leads
\* to a state with the same store as its predecessor, where every call is
\* enumerated already, so no sequence of store states is lost.
CallsEnabled == call.changed /\ ncalls < MaxCalls

Perform(S, c) ==
    /\ S.primitive_counter <= MaxPrims
    /\ S.scene_counter <= MaxScenes
    /\ Commit(S)
    /\ call' = c
    /\ ncalls' = IF c.changed THEN ncalls + 1 ELSE ncalls
    /\ boundary_step' = IF c.op = "snapshot" /\ c.raised = ""
                        THEN S.time_step ELSE boundary_step

add_cube ==
    /\ CallsEnabled
    /\ \E b \in {BasePoint}, name \in NameArgs :
        LET S == AddPrimitiveObject(Space, Cube(b, name, CubeMetadata))
        IN  Perform(S, Call("add_cube", name, NoSelector, <<>>, None, None,
                            S))

add_cuboid ==
    /\ CallsEnabled
    /\ \E b \in {BasePoint}, name \in NameArgs :
        LET S == AddPrimitiveObject(Space,
                    Cuboid(b, CuboidShape, name, CubeMetadata))
        IN  Perform(S, Call("add_cuboid", name, NoSelector, <<>>, None, None,
                            S))

add_composite ==
    /\ CallsEnabled
    /\ \E b \in {BasePoint}, name \in NameArgs, style \in Styles :
        LET S == AddCompositeObject(Space,
                    CompositeCube(b, CompositeShape, name, CompositeMetadata),
                    style)
        IN  Perform(S, Call("add_composite", name, NoSelector, <<>>, None,
                            None, S))

Mutate(sel) ==
    \E kwargs \in MutateKwargs :
        LET S == MutateBy(Space, sel, kwargs)
        IN  Perform(S, Call("mutate", None, sel, kwargs, None, None, S))

mutate_by_coordinate ==
    /\ CallsEnabled
    /\ \E c \in Points : Mutate(BySelector("coordinate", c))

mutate_by_name ==
    /\ CallsEnabled
    /\ \E n \in NameSelectors : Mutate(BySelector("name", n))

mutate_by_timestep ==
    /\ CallsEnabled
    /\ \E t \in TimestepSelectors : Mutate(BySelector("timestep", t))

mutate_by_scene ==
    /\ CallsEnabled
    /\ \E s \in SceneSelectors : Mutate(BySelector("scene", s))

TransformStep(sel) ==
    \/ \E args \in TransformArgs :
        LET S == TransformBy(Space, sel, args[1], args[2])
        IN  Perform(S, Call("transform", None, sel, <<>>, args[1], args[2], S))
    \/ \E scale \in Scales :
        LET S == TransformWithScale(Space, sel, scale)
        IN  Perform(S, [Call("transform", None, sel, <<>>, None, None, S)
                            EXCEPT !.scale = Some(scale)])

transform_by_coordinate ==
    /\ CallsEnabled
    /\ \E c \in Points : TransformStep(BySelector("coordinate", c))

transform_by_name ==
    /\ CallsEnabled
    /\ \E n \in NameSelectors : TransformStep(BySelector("name", n))

transform_by_timestep ==
    /\ CallsEnabled
    /\ \E t \in TimestepSelectors : TransformStep(BySelector("timestep", t))

transform_by_scene ==
    /\ CallsEnabled
    /\ \E s \in SceneSelectors : TransformStep(BySelector("scene", s))

clone_by_offset ==
    /\ CallsEnabled
    /\ \E offset \in Offsets, sel \in CloneSelectors, kwargs \in CloneKwargs :
        LET S == CloneByOffset(Space, offset, sel, kwargs)
        IN  Perform(S, [Call("clone", None, sel, kwargs, None, None, S)
                            EXCEPT !.offset = Some(offset)])

snapshot ==
    /\ CallsEnabled
    /\ LET S == Snapshot(Space)
       IN  Perform(S, Call("snapshot", None, NoSelector, <<>>, None, None,
                           S))

Next ==
    \/ add_cube
    \/ add_cuboid
    \/ add_composite
    \/ mutate_by_coordinate
    \/ mutate_by_name
    \/ mutate_by_timestep
    \/ mutate_by_scene
    \/ transform_by_coordinate
    \/ transform_by_name
    \/ transform_by_timestep
    \/ transform_by_scene
    \/ clone_by_offset
    \/ snapshot

Spec == Init /\ [][Next]_vars

\* ------------------------------------------------------------- properties
\* The properties are stated over one step: the unprimed store is the store
\* before the call, call' is the call the step performed and the primed
\* store is the store it left.
AddOps == {"add_cube", "add_cuboid", "add_composite"}

\* The selection the call's selector resolves to in the store before it.
Resolved(c) == Select(Space, c.sel)

\* The call got past selection: it names one selector and selecting by it
\* does not raise.
SelectionResolves(c) ==
    /\ c.sel.by \in {"coordinate", "name", "timestep", "scene"}
    /\ Resolved(c).raised = ""

\* Exactly one of translate, reflect is given.
OneTransformArgument(c) == IsNone(c.translate) # IsNone(c.reflect)

\* C1: every add_*, every mutate_* with a non-empty selection and non-empty
\* kwargs, every transform_* that takes effect and every clone_by_offset with
\* a non-empty selection, when it succeeds, increases time_step by exactly 1;
\* no call, successful, no-op or failing, decreases time_step or increases
\* it by more than 1.
C1_TimeStepAdvancesByOne ==
    [][LET c == call'
       IN  /\ time_step' \in {time_step, time_step + 1}
           /\ (c.op \in AddOps /\ c.raised = "")
                => time_step' = time_step + 1
           /\ (/\ c.op = "mutate"
               /\ c.raised = ""
               /\ NonZeroSelection(Resolved(c))
               /\ c.kwargs # <<>>)
                => time_step' = time_step + 1
           /\ (/\ c.op = "transform"
               /\ c.raised = ""
               /\ \/ cuboid_coordinates' # cuboid_coordinates
                  \/ changelog' # changelog
                  \/ cuboid_index' # cuboid_index)
                => time_step' = time_step + 1
           /\ (/\ c.op = "clone"
               /\ c.raised = ""
               /\ NonZeroSelection(Resolved(c)))
                => time_step' = time_step + 1
      ]_vars

\* A clone of a non-empty selection has consumed the second time-step.
C1_Witness ==
    /\ call.op = "clone"
    /\ call.raised = ""
    /\ call.changed
    /\ time_step = 2

\* The no-op conditions of a mutate_* / transform_* / clone_by_offset call
\* that got past selection: empty selection, empty kwargs, zero translation,
\* all-ones reflection.
IsNoOp(c) ==
    /\ c.op \in {"mutate", "transform", "clone"}
    /\ SelectionResolves(c)
    /\ \/ ~NonZeroSelection(Resolved(c))
       \/ c.op = "mutate" /\ c.kwargs = <<>>
       \/ c.op = "transform" /\ OneTransformArgument(c)
            /\ \/ c.translate = Some(Zero3)
               \/ c.reflect = Some(Ones3)

\* The kind of entry an effectful call appends.
EntryKind(op) ==
    CASE op \in AddOps \cup {"clone"} -> "Addition"
      [] op = "mutate" -> "Mutation"
      [] op = "transform" -> "Transform"

\* A call that succeeded and is no no-op.
IsEffectful(c) ==
    /\ c.op \in AddOps \cup {"mutate", "transform", "clone"}
    /\ c.raised = ""
    /\ ~IsNoOp(c)

\* C2: the changelog gets exactly one entry per effectful operation
\* (Addition for add_* and clone_by_offset, Mutation for mutate_*, Transform
\* for transform_*), appended in operation order; entries are never removed
\* or rewritten, and a no-op or failing call appends nothing.
C2_OneEntryPerEffectfulOperation ==
    [][LET c == call'
       IN  /\ \/ changelog' = changelog
              \/ /\ Len(changelog') = Len(changelog) + 1
                 /\ SubSeq(changelog', 1, Len(changelog)) = changelog
           /\ IsEffectful(c) =>
                /\ Len(changelog') = Len(changelog) + 1
                /\ changelog'[Len(changelog')].kind = EntryKind(c.op)
           /\ (c.raised # "" \/ IsNoOp(c)) => changelog' = changelog
      ]_vars

\* A name is bound in the store before the call.
NameBound(name) == ~IsNone(name) /\ name[1] \in DOMAIN cuboid_names

\* C3: add_cube, add_cuboid or add_composite with a name that is already
\* bound fails and leaves every part of the store unchanged.
C3_DuplicateNameLeavesStoreUnchanged ==
    [][(call'.op \in AddOps /\ NameBound(call'.name))
        => (call'.raised # "" /\ UNCHANGED store_vars)
      ]_vars

\* C4: a bound name keeps denoting the ids it was bound to across every
\* later call; an add_* under a bound name fails and leaves the binding;
\* clone_by_offset binds no name.
C4_NamesAreWriteOnce ==
    [][/\ \A n \in DOMAIN cuboid_names :
            /\ n \in DOMAIN cuboid_names'
            /\ SelectByName(Space', n) = SelectByName(Space, n)
       /\ (call'.op \in AddOps /\ NameBound(call'.name))
            => (call'.raised # "" /\ cuboid_names' = cuboid_names)
       /\ call'.op = "clone" => cuboid_names' = cuboid_names
      ]_vars

\* An add_* under the bound name was rejected and the name still selects
\* the object it was bound to.
C4_Witness ==
    /\ call.op \in AddOps
    /\ call.raised = "Exception"
    /\ ~IsNone(call.name)
    /\ call.name[1] \in DOMAIN cuboid_names
    /\ NonZeroSelection(SelectByName(Space, call.name[1]))

\* Some key of the kwargs is no attribute column.
HasUnknownKey(c) ==
    \E k \in 1..Len(c.kwargs) :
        c.kwargs[k][1] \notin DOMAIN cuboid_visual_metadata

\* C5: a mutate_* call on a non-empty selection with a key that is no
\* existing attribute column fails and leaves the attribute columns, the
\* touch index, time_step and the changelog unchanged, whatever other keys
\* it carries and in whatever order.
C5_UnknownKeyLeavesStoreUnchanged ==
    [][(/\ call'.op = "mutate"
        /\ SelectionResolves(call')
        /\ NonZeroSelection(Resolved(call'))
        /\ HasUnknownKey(call'))
        => /\ call'.raised # ""
           /\ UNCHANGED <<cuboid_visual_metadata, cuboid_index, time_step,
                          changelog>>
      ]_vars

\* C6: a mutate_* call whose selection resolves to nothing, or whose kwargs
\* are empty, returns without error and leaves the whole store unchanged.
C6_MutateNothingIsNoOp ==
    [][(/\ call'.op = "mutate"
        /\ SelectionResolves(call')
        /\ \/ ~NonZeroSelection(Resolved(call'))
           \/ call'.kwargs = <<>>)
        => (call'.raised = "" /\ UNCHANGED store_vars)
      ]_vars

\* A mutate_* with kwargs was called on a populated store and selected
\* nothing.
C6_Witness ==
    /\ call.op = "mutate"
    /\ call.raised = ""
    /\ call.kwargs # <<>>
    /\ primitive_counter > 0
    /\ ~NonZeroSelection(Select(Space, call.sel))

\* C7: a transform_* call with exactly one transform argument whose
\* selection resolves to nothing returns without error and leaves geometry,
\* the touch index, time_step and the changelog unchanged.
C7_TransformEmptySelectionIsNoOp ==
    [][(/\ call'.op = "transform"
        /\ OneTransformArgument(call')
        /\ SelectionResolves(call')
        /\ ~NonZeroSelection(Resolved(call')))
        => /\ call'.raised = ""
           /\ UNCHANGED <<cuboid_coordinates, cuboid_shapes, cuboid_index,
                          time_step, changelog>>
      ]_vars

\* A non-trivial translate was called on a populated store and selected
\* nothing.
C7_Witness ==
    /\ call.op = "transform"
    /\ call.raised = ""
    /\ ~IsNone(call.translate)
    /\ IsNone(call.reflect)
    /\ NpAny(call.translate[1])
    /\ primitive_counter > 0
    /\ ~NonZeroSelection(Select(Space, call.sel))

\* C8: a transform_* call with translate = (0, 0, 0) on a non-empty
\* selection changes neither the changelog, time_step, the touch index nor
\* any geometry.
C8_ZeroTranslateIsNoOp ==
    [][(/\ call'.op = "transform"
        /\ call'.translate = Some(Zero3)
        /\ IsNone(call'.reflect)
        /\ SelectionResolves(call')
        /\ NonZeroSelection(Resolved(call')))
        => /\ call'.raised = ""
           /\ UNCHANGED <<changelog, time_step, cuboid_index,
                          cuboid_coordinates, cuboid_shapes>>
      ]_vars

\* A zero translate was called and its selector selects an object.
C8_Witness ==
    /\ call.op = "transform"
    /\ call.raised = ""
    /\ call.translate = Some(Zero3)
    /\ IsNone(call.reflect)
    /\ NonZeroSelection(Select(Space, call.sel))

\* C9: a transform_* call with reflect = (1, 1, 1) on a non-empty selection
\* changes neither the changelog, time_step, the touch index nor any
\* geometry.
C9_UnitReflectIsNoOp ==
    [][(/\ call'.op = "transform"
        /\ call'.reflect = Some(Ones3)
        /\ IsNone(call'.translate)
        /\ SelectionResolves(call')
        /\ NonZeroSelection(Resolved(call')))
        => /\ call'.raised = ""
           /\ UNCHANGED <<changelog, time_step, cuboid_index,
                          cuboid_coordinates, cuboid_shapes>>
      ]_vars

\* The values a Mutation entry is to list for one key: the value of every
\* selected primitive, then the value of the first member of every selected
\* composite, as held in the store before the call.
PriorValues(r, key) ==
    [k \in 1..(Len(r.prims) + Len(r.comps)) |->
        IF k <= Len(r.prims)
        THEN Row(cuboid_visual_metadata[key], r.prims[k])
        ELSE Row(cuboid_visual_metadata[key],
                 r.comps[k - Len(r.prims)].start)]

\* C10: the Mutation entry of an effectful mutate_* names the one selector
\* that was used and lists, for each mutated key, the values held
\* immediately before the call: one per selected primitive in selection
\* order, then one per selected composite, that of its first member; the
\* new value is not what it records.
C10_MutationRecordsPriorValues ==
    [][(/\ call'.op = "mutate"
        /\ call'.raised = ""
        /\ call'.changed)
        => LET c == call'
               e == changelog'[Len(changelog')]
               keys == {c.kwargs[k][1] : k \in 1..Len(c.kwargs)}
           IN  /\ Len(changelog') = Len(changelog) + 1
               /\ e.kind = "Mutation"
               /\ e.coordinate = c.sel.coordinate
               /\ e.name = c.sel.name
               /\ e.timestep_id = c.sel.timestep_id
               /\ e.scene_id = c.sel.scene_id
               /\ Cardinality({f \in {"coordinate", "name", "timestep_id",
                                      "scene_id"} : ~IsNone(e[f])}) = 1
               /\ DOMAIN e.subject = keys
               /\ \A key \in keys :
                    e.subject[key] = PriorValues(Resolved(c), key)
      ]_vars

\* The row id belongs to the selection r: it is a selected primitive or a
\* member of a selected composite range.
RowSelected(r, id) ==
    \/ \E k \in 1..Len(r.prims) : r.prims[k] = id
    \/ \E k \in 1..Len(r.comps) : r.comps[k].start <= id /\ id < r.comps[k].stop

\* The value the kwargs give for a key they name.
KwargValue(kwargs, key) ==
    kwargs[CHOOSE k \in 1..Len(kwargs) : kwargs[k][1] = key][2]

C12_SnapshotOverEmptySpanFails ==
    [][call'.op = "snapshot"
        => /\ time_step = boundary_step => call'.raised # ""
           /\ call'.raised # "" => UNCHANGED store_vars
      ]_vars

\* C13: snapshot() after at least one consumed time-step since the last
\* boundary returns, increases scene_counter by exactly 1 and changes
\* nothing else; the index logs only grow, and every touch a step records
\* carries the scene counter of the state it was recorded in, hence the new
\* scene id after a snapshot.
C13_SnapshotOpensNextScene ==
    [][/\ (call'.op = "snapshot" /\ time_step > boundary_step)
            => /\ call'.raised = ""
               /\ scene_counter' = scene_counter + 1
               /\ UNCHANGED <<dims, mean, total, num_objs, primitive_counter,
                              time_step, cuboid_coordinates,
                              coordinates_capacity, cuboid_shapes,
                              shapes_capacity, cuboid_visual_metadata,
                              cuboid_index, cuboid_names, changelog>>
       /\ \A log \in {"primitives", "composites"} :
            /\ Len(cuboid_index'[log]) >= Len(cuboid_index[log])
            /\ SubSeq(cuboid_index'[log], 1, Len(cuboid_index[log]))
                    = cuboid_index[log]
            /\ \A k \in (Len(cuboid_index[log]) + 1)..Len(cuboid_index'[log]) :
                    cuboid_index'[log][k].scene_id = scene_counter
      ]_vars

\* A snapshot has closed scene 0 after a consumed time-step and a later
\* call has recorded a touch in scene 1.
C13_Witness ==
    /\ scene_counter = 1
    /\ boundary_step > 0
    /\ call.op # "snapshot"
    /\ call.raised = ""
    /\ \E k \in 1..Len(cuboid_index.primitives) :
            cuboid_index.primitives[k].scene_id = 1

\* The fields of a changelog entry that name a selector.
SelectorFields == {"coordinate", "name", "timestep_id", "scene_id"}

\* C14: every effectful transform_* appends a Transform entry carrying the
\* inverse of the applied transform - the negated vector named "translation"
\* for translate, the same vector named "reflection" for reflect - and the
\* one selector that was used.
C14_TransformRecordsInverse ==
    [][(/\ call'.op = "transform"
        /\ call'.raised = ""
        /\ call'.changed)
        => LET c == call'
               e == changelog'[Len(changelog')]
           IN  /\ Len(changelog') = Len(changelog) + 1
               /\ SubSeq(changelog', 1, Len(changelog)) = changelog
               /\ e.kind = "Transform"
               /\ ~IsNone(c.translate) =>
                    /\ e.transform_name = "translation"
                    /\ VAdd(e.transform, c.translate[1]) = Zero3
               /\ ~IsNone(c.reflect) =>
                    /\ e.transform_name = "reflection"
                    /\ e.transform = c.reflect[1]
               /\ \A f \in SelectorFields : e[f] = c.sel[f]
               /\ Cardinality({f \in SelectorFields : ~IsNone(e[f])}) = 1
      ]_vars

\* A translate by a non-zero vector took effect and its entry is the last
\* of the changelog.
C14_Witness ==
    /\ call.op = "transform"
    /\ call.raised = ""
    /\ call.changed
    /\ ~IsNone(call.translate)
    /\ changelog[Len(changelog)].kind = "Transform"
    /\ changelog[Len(changelog)].transform # call.translate[1]

\* The rows of coords after func has been applied to the selection r, as
\* _transform_by_ids applies it.
Applied(coords, r, func) ==
    TransformComposites(TransformPrimitives(coords, r.prims, func),
                        r.comps, func)

InsertOps == AddOps \cup {"clone"}

\* dims' extends dims: on every axis the minimum has not increased and the
\* maximum has not decreased.
DimsExtended ==
    \A i \in 1..3 : dims'[i][1] <= dims[i][1] /\ dims'[i][2] >= dims[i][2]

\* C16 as stated: over add_cube / add_cuboid / add_composite /
\* clone_by_offset calls starting from the freshly created store, no
\* bounding-box maximum decreases and no minimum increases from one state to
\* the next.
C16_DimsMonotoneFromCreation ==
    [][call'.op \in InsertOps => DimsExtended]_vars

\* C16, amended: once the store holds a primitive, an add_cube / add_cuboid /
\* add_composite / clone_by_offset call decreases no bounding-box maximum
\* and increases no minimum; the first insertion replaces the initial
\* all-zero dims by the bounding box of the inserted object.
C16_DimsMonotoneOncePopulated ==
    [][call'.op \in InsertOps
        => /\ primitive_counter > 0 => DimsExtended
           /\ (primitive_counter = 0 /\ primitive_counter' > 0)
                => \A i \in 1..3 :
                    /\ dims'[i][1] = BoxMin(Row(cuboid_coordinates', 0), i)
                    /\ dims'[i][2] =
                        BoxMax(Row(cuboid_coordinates',
                                   primitive_counter' - 1), i)
      ]_vars

\* A clone_by_offset on a populated store has extended the bounding box
\* beyond the box of the first primitive.
C16_Witness ==
    /\ call.op = "clone"
    /\ call.raised = ""
    /\ call.changed
    /\ \E i \in 1..3 : dims[i][2] > BoxMax(Row(cuboid_coordinates, 0), i)

\* C17: on every axis dims contains every vertex of every stored primitive,
\* also after a translate or reflect has moved it.
C17_DimsContainGeometry ==
    \A id \in 0..(Len(cuboid_coordinates) - 1) : \A i \in 1..3 :
        /\ dims[i][1] <= BoxMin(Row(cuboid_coordinates, id), i)
        /\ BoxMax(Row(cuboid_coordinates, id), i) <= dims[i][2]

\* The ids registered as standalone primitives and the slices registered
\* as composites.
StandalonePrimitives == SeqRange(IndexPrimitives(cuboid_index))
Composites == SeqRange(IndexComposites(cuboid_index))

\* The base vertex of row id is the coordinate c, in the storage basis.
BaseIs(id, c) == Row(cuboid_coordinates, id).base = ConvertBasis(c)

\* C18: selection by coordinate c returns exactly the standalone primitives
\* whose base vertex is c and exactly the composites whose first member's
\* base vertex is c, whatever the number and the insertion order of the
\* objects and whatever mutate_* and transform_* have re-registered.
C18_CoordinateSelectsAllMatches ==
    \A c \in Points :
        LET r == SelectByCoordinate(Space, c)
        IN  /\ SeqRange(r.prims) = {id \in StandalonePrimitives : BaseIs(id, c)}
            /\ SeqRange(r.comps) = {sl \in Composites : BaseIs(sl.start, c)}

\* Coordinates probed for selection: the selection coordinates and the base
\* vertices of the second member of a composite at each of them.
ProbePoints == Points \cup {<<1, 1, 2>>, <<3, 1, 3>>}

\* The row id lies inside a registered composite range.
InComposite(id) == \E sl \in Composites : sl.start <= id /\ id < sl.stop

\* C19: selection by coordinate returns no id inside a composite range as a
\* standalone primitive and returns a composite only when the coordinate is
\* the base vertex of its first member: a coordinate that meets a composite
\* at another member selects none of its primitives.
C19_CompositeMembersNotSelectable ==
    \A c \in ProbePoints :
        LET r == SelectByCoordinate(Space, c)
        IN  /\ \A k \in 1..Len(r.prims) : ~InComposite(r.prims[k])
            /\ \A k \in 1..Len(r.comps) :
                /\ r.comps[k] \in Composites
                /\ BaseIs(r.comps[k].start, c)

\* A probed coordinate is the base vertex of a member of a composite other
\* than its first, and selecting by it returns nothing.
C19_Witness ==
    \E c \in ProbePoints :
        /\ \E id \in 0..(primitive_counter - 1) :
            /\ BaseIs(id, c)
            /\ InComposite(id)
            /\ \A sl \in Composites : sl.start # id
        /\ ~NonZeroSelection(SelectByCoordinate(Space, c))

RECURSIVE TouchedAt(_, _)
TouchedAt(log, t) ==
    IF log = <<>> THEN <<>>
    ELSE IF Head(log).timestep_id = t
    THEN <<Head(log).id>> \o TouchedAt(Tail(log), t)
    ELSE TouchedAt(Tail(log), t)

\* C21: selection by time-step t fails when t < 0 or t > time_step, leaving
\* the store unchanged; for 0 <= t <= time_step it returns exactly the
\* primitive ids and composite ranges touched at time-step t, in touch order.
C21_TimestepSelection ==
    [][/\ (/\ call'.op \in {"mutate", "transform", "clone"}
           /\ call'.sel.by = "timestep"
           /\ \/ call'.sel.timestep_id[1] < 0
              \/ call'.sel.timestep_id[1] > time_step)
            => (call'.raised # "" /\ UNCHANGED store_vars)
       /\ \A t \in 0..time_step :
            LET r == SelectByTimestep(Space, t)
            IN  /\ r.raised = ""
                /\ r.prims = TouchedAt(cuboid_index.primitives, t)
                /\ r.comps = TouchedAt(cuboid_index.composites, t)
      ]_vars

\* A call selected by a time-step that has not been reached yet and was
\* rejected, on a store where an earlier time-step selects an object.
C21_Witness ==
    /\ call.op \in {"mutate", "transform", "clone"}
    /\ call.sel.by = "timestep"
    /\ call.sel.timestep_id[1] > time_step
    /\ call.raised = "ValueError"
    /\ NonZeroSelection(SelectByTimestep(Space, 0))

\* The ids a touch log carries with scene s.
TouchedInScene(log, s) ==
    {log[k].id : k \in {j \in 1..Len(log) : log[j].scene_id = s}}

\* No element occurs twice in the sequence.
NoRepeats(seq) ==
    \A i, j \in 1..Len(seq) : seq[i] = seq[j] => i = j

\* C22: selection by scene s returns each primitive id and each composite
\* range touched in scene s exactly once, so a mutate / transform / clone by
\* scene acts on each such object exactly once: it touches each once, a
\* translate moves each by the vector once, a clone makes one copy of each.
C22_SceneSelectionIsDeduplicated ==
    [][/\ \A s \in 0..scene_counter :
            LET r == SelectByScene(Space, s)
            IN  /\ r.raised = ""
                /\ NoRepeats(r.prims) /\ NoRepeats(r.comps)
                /\ SeqRange(r.prims)
                        = TouchedInScene(cuboid_index.primitives, s)
                /\ SeqRange(r.comps)
                        = TouchedInScene(cuboid_index.composites, s)
       /\ (/\ call'.op \in {"mutate", "transform", "clone"}
           /\ call'.sel.by = "scene"
           /\ call'.raised = ""
           /\ call'.changed)
            => LET s == call'.sel.scene_id[1]
                   P == TouchedInScene(cuboid_index.primitives, s)
                   C == TouchedInScene(cuboid_index.composites, s)
               IN  /\ call'.op \in {"mutate", "transform"}
                        => /\ Len(cuboid_index'.primitives)
                                = Len(cuboid_index.primitives) + Cardinality(P)
                           /\ Len(cuboid_index'.composites)
                                = Len(cuboid_index.composites) + Cardinality(C)
                   /\ (call'.op = "transform" /\ ~IsNone(call'.translate))
                        => \A id \in 0..(Len(cuboid_coordinates) - 1) :
                            (\/ id \in P
                             \/ \E c \in C : c.start <= id /\ id < c.stop)
                            => Row(cuboid_coordinates', id)
                                = ApplyFunc(Row(cuboid_coordinates, id),
                                            [name |-> "translate",
                                             val |-> call'.translate[1]])
                   /\ call'.op = "clone"
                        => num_objs' = num_objs
                                        + Cardinality(P) + Cardinality(C)
      ]_vars

\* A translate by scene has taken effect on an object that the scene's log
\* now names three times.
C22_Witness ==
    /\ call.op = "transform"
    /\ call.sel.by = "scene"
    /\ ~IsNone(call.translate)
    /\ call.raised = ""
    /\ call.changed
    /\ \E id \in TouchedInScene(cuboid_index.primitives, call.sel.scene_id[1]) :
            Cardinality({k \in 1..Len(cuboid_index.primitives) :
                /\ cuboid_index.primitives[k].id = id
                /\ cuboid_index.primitives[k].scene_id
                        = call.sel.scene_id[1]}) >= 3

\* sum of stop - start over a sequence of composite ranges.
RECURSIVE MemberCount(_)
MemberCount(comps) ==
    IF comps = <<>> THEN 0
    ELSE (Head(comps).stop - Head(comps).start) + MemberCount(Tail(comps))

\* The range the k-th composite clone occupies when the clones of comps are
\* laid out one after another from row `first`.
CloneSlice(comps, k, first) ==
    LET start == first + MemberCount(SubSeq(comps, 1, k - 1))
    IN  Slice(start, start + (comps[k].stop - comps[k].start))

\* The entries a log has gained.
Gained(log, log2) == SubSeq(log2, Len(log) + 1, Len(log2))

\* C23: a clone_by_offset that selects p primitives and c composites creates
\* exactly p primitives and c composites: num_objs grows by p + c,
\* primitive_counter by p plus the member counts of the selected composites,
\* each clone's base vertex is its source's base vertex plus the offset in
\* the caller's basis, every new object is touched at one same time-step,
\* which no earlier Addition carries, in the current scene, exactly one
\* Addition entry is appended and time_step grows by 1.
C23_CloneCreatesOnePerSelected ==
    [][(/\ call'.op = "clone"
        /\ call'.raised = ""
        /\ SelectionResolves(call')
        /\ NonZeroSelection(Resolved(call')))
        => LET r == Resolved(call')
               p == Len(r.prims)
               c == Len(r.comps)
               offset == call'.offset[1]
               newp == Gained(cuboid_index.primitives, cuboid_index'.primitives)
               newc == Gained(cuboid_index.composites, cuboid_index'.composites)
           IN  /\ num_objs' = num_objs + p + c
               /\ primitive_counter'
                    = primitive_counter + p + MemberCount(r.comps)
               /\ Len(newp) = p /\ Len(newc) = c
               /\ \A k \in 1..p :
                    /\ newp[k] = [id |-> primitive_counter + k - 1,
                                  timestep_id |-> time_step,
                                  scene_id |-> scene_counter]
                    /\ ConvertBasis(Row(cuboid_coordinates', newp[k].id).base)
                        = VAdd(ConvertBasis(
                                Row(cuboid_coordinates, r.prims[k]).base),
                               offset)
               /\ \A k \in 1..c :
                    /\ newc[k] = [id |-> CloneSlice(r.comps, k,
                                                    primitive_counter + p),
                                  timestep_id |-> time_step,
                                  scene_id |-> scene_counter]
                    /\ ConvertBasis(
                            Row(cuboid_coordinates', newc[k].id.start).base)
                        = VAdd(ConvertBasis(
                                Row(cuboid_coordinates, r.comps[k].start).base),
                               offset)
               /\ changelog' = Append(changelog, [kind |-> "Addition",
                                                  timestep_id |-> time_step,
                                                  name |-> None])
               /\ time_step' = time_step + 1
               /\ \A k \in 1..Len(changelog) :
                    changelog[k].kind = "Addition"
                        => changelog[k].timestep_id # time_step
      ]_vars

\* A clone by coordinate has copied a cube and a composite that share a base
\* vertex: both logs end with an object of the time-step the call consumed.
C23_Witness ==
    /\ call.op = "clone"
    /\ call.raised = ""
    /\ call.changed
    /\ num_objs = 4
    /\ Len(cuboid_index.primitives) = 2
    /\ Len(cuboid_index.composites) = 2
    /\ cuboid_index.primitives[2].timestep_id = time_step - 1
    /\ cuboid_index.composites[2].timestep_id = time_step - 1
    /\ Len(changelog) = 3

\* ------------------------------------------------ a store that outgrows its
\* buffers.  The same operations on inputs that fill the buffers of
\* InitialCapacity rows: unit cubes at the origin, composites of 24, 12 and
\* 9 members at the origin, clones by coordinate and by name.
Origin == Zero3
LargeShapes == {<<4, 3, 2>>, <<4, 3, 1>>, <<3, 3, 1>>}
LargeName == "my-composite"
LargeOffsets == {<<12, 0, 0>>, <<0, 12, 0>>}
LargeSelectors ==
    {BySelector("coordinate", Origin), BySelector("coordinate", <<12, 0, 0>>),
     BySelector("name", LargeName)}

LargePerform(S, c) ==
    /\ S.primitive_counter <= MaxPopulation
    /\ Commit(S)
    /\ call' = c
    /\ ncalls' = IF c.changed THEN ncalls + 1 ELSE ncalls
    /\ UNCHANGED boundary_step

large_add_cube ==
    /\ CallsEnabled
    /\ LET S == AddPrimitiveObject(Space, Cube(Origin, None, CubeMetadata))
       IN  LargePerform(S, Call("add_cube", None, NoSelector, <<>>, None,
                                None, S))

large_add_composite ==
    /\ CallsEnabled
    /\ \E shape \in LargeShapes, name \in {None, Some(LargeName)} :
        LET S == AddCompositeObject(Space,
                    CompositeCube(Origin, shape, name, CompositeMetadata),
                    "default")
        IN  LargePerform(S, Call("add_composite", name, NoSelector, <<>>,
                                 None, None, S))

large_clone_by_offset ==
    /\ CallsEnabled
    /\ \E offset \in LargeOffsets, sel \in LargeSelectors :
        LET S == CloneByOffset(Space, offset, sel, <<>>)
        IN  LargePerform(S, [Call("clone", None, sel, <<>>, None, None, S)
                                EXCEPT !.offset = Some(offset)])

LargeNext ==
    \/ large_add_cube
    \/ large_add_composite
    \/ large_clone_by_offset

LargeSpec == Init /\ [][LargeNext]_vars

\* The store of scenario B before its last call: the composite of 24
\* primitives named my-composite at the origin, and its clone at (12, 0, 0).
ScenarioB_TwoComposites ==
    /\ num_objs = 2
    /\ primitive_counter = 48
    /\ cuboid_index.primitives = <<>>
    /\ cuboid_index.composites
        = <<[id |-> Slice(0, 24), timestep_id |-> 0, scene_id |-> 0],
            [id |-> Slice(24, 48), timestep_id |-> 1, scene_id |-> 0]>>
    /\ Row(cuboid_shapes, 0) = <<4, 3, 2>>
    /\ ConvertBasis(Row(cuboid_coordinates, 0).base) = Origin
    /\ ConvertBasis(Row(cuboid_coordinates, 24).base) = <<12, 0, 0>>
    /\ LargeName \in DOMAIN cuboid_names
    /\ cuboid_names[LargeName] = <<None, Some(<<Slice(0, 24)>>)>>

\* The last call of scenario B: a clone by the composite's name.
ScenarioB_CloneByName(c) ==
    /\ c.op = "clone"
    /\ c.sel.by = "name"
    /\ c.sel.name = Some(LargeName)

\* C24 as stated: a named composite of 4 x 3 x 2 = 24 primitives at the
\* origin, cloned by its origin coordinate with offset (12, 0, 0) and then
\* cloned by name with a second offset, gives 72 primitives, and the object
\* the second clone creates has its base vertex at (12, 0, 0) plus the
\* second offset.
C24_SecondCloneStartsAtFirstClone ==
    [][(ScenarioB_TwoComposites /\ ScenarioB_CloneByName(call'))
        => /\ call'.raised = ""
           /\ primitive_counter' = 72
           /\ ConvertBasis(Row(cuboid_coordinates', 48).base)
                = VAdd(<<12, 0, 0>>, call'.offset[1])
      ]_vars

\* C24, amended: in that scenario the store holds 72 primitives, and the
\* object the clone by name creates has its base vertex at the named
\* composite's base vertex, the origin, plus the second offset.
C24_SecondCloneStartsAtNamedComposite ==
    [][(ScenarioB_TwoComposites /\ ScenarioB_CloneByName(call'))
        => /\ call'.raised = ""
           /\ primitive_counter' = 72
           /\ num_objs' = 3
           /\ cuboid_index'.composites[3].id = Slice(48, 72)
           /\ ConvertBasis(Row(cuboid_coordinates', 48).base)
                = VAdd(Origin, call'.offset[1])
      ]_vars

\* Scenario B has run to its end with the second offset (0, 12, 0).
C24_Witness ==
    /\ ScenarioB_CloneByName(call)
    /\ call.offset = Some(<<0, 12, 0>>)
    /\ call.raised = ""
    /\ primitive_counter = 72
    /\ num_objs = 3
    /\ Len(cuboid_index.composites) = 3
    /\ ConvertBasis(Row(cuboid_coordinates, 24).base) = <<12, 0, 0>>
    /\ cuboid_names[LargeName] = <<None, Some(<<Slice(0, 24)>>)>>

\* The value clone_by_offset's caller gave for `key` to the i-th created
\* object (1-based, primitives first, then composites): a scalar goes to
\* every object, a list gives its i-th element.
CloneOverride(kwargs, key, i) ==
    LET k == CHOOSE j \in 1..Len(kwargs) : kwargs[j][1] = key
    IN  IF kwargs[k][2] = "list" THEN kwargs[k][3][i] ELSE kwargs[k][3][1]

\* What the i-th created object carries for `key`: the override when one is
\* given, else the value stored at the source row.
CloneAttribute(kwargs, key, i, source_row) ==
    IF \E j \in 1..Len(kwargs) : kwargs[j][1] = key
    THEN CloneOverride(kwargs, key, i)
    ELSE Row(cuboid_visual_metadata[key], source_row)

\* C25: each clone inherits the attribute values of its source (for a
\* composite: of the source's first member, given to every member of the
\* clone) except where an override is supplied; a scalar override goes to
\* every clone, and a list override is consumed in selection order,
\* primitives first and then composites, the i-th created object getting the
\* i-th element.
C25_ClonesInheritWithOverrides ==
    [][(/\ call'.op = "clone"
        /\ call'.raised = ""
        /\ SelectionResolves(call')
        /\ NonZeroSelection(Resolved(call')))
        => LET r == Resolved(call')
               p == Len(r.prims)
               c == Len(r.comps)
               kw == call'.kwargs
           IN  \A key \in DOMAIN cuboid_visual_metadata :
                /\ \A k \in 1..p :
                    Row(cuboid_visual_metadata'[key], primitive_counter + k - 1)
                        = CloneAttribute(kw, key, k, r.prims[k])
                /\ \A k \in 1..c :
                    LET new == CloneSlice(r.comps, k, primitive_counter + p)
                    IN  \A id \in new.start..(new.stop - 1) :
                            Row(cuboid_visual_metadata'[key], id)
                                = CloneAttribute(kw, key, p + k,
                                                 r.comps[k].start)
      ]_vars

\* C26: a clone_by_offset whose selection resolves to no object returns
\* without error and leaves the store unchanged, whatever overrides it was
\* given.
C26_CloneOfNothingIsNoOp ==
    [][(/\ call'.op = "clone"
        /\ SelectionResolves(call')
        /\ ~NonZeroSelection(Resolved(call')))
        => (call'.raised = "" /\ UNCHANGED store_vars)
      ]_vars

\* A clone by a coordinate where no object has its base vertex has returned
\* on a store that holds objects.
C26_Witness ==
    /\ call.op = "clone"
    /\ call.sel.by = "coordinate"
    /\ SelectionResolves(call)
    /\ ~NonZeroSelection(Resolved(call))
    /\ call.raised = ""
    /\ ~call.changed
    /\ num_objs > 0

\* C27: a clone_by_offset given none of coordinate, name, timestep, scene,
\* or more than one of them, fails and leaves the store unchanged.
C27_CloneNeedsExactlyOneSelector ==
    [][(call'.op = "clone" /\ SelectorsSet(call'.sel) # 1)
        => (call'.raised # "" /\ UNCHANGED store_vars)
      ]_vars

\* A clone given a coordinate and a name, each of which selects an object on
\* its own, has been rejected.
C27_Witness ==
    /\ call.op = "clone"
    /\ SelectorsSet(call.sel) = 2
    /\ call.raised = "ValueError"
    /\ NonZeroSelection(SelectByName(Space, call.sel.name[1]))
    /\ NonZeroSelection(SelectByCoordinate(Space, call.sel.coordinate[1]))

\* C28: a transform with scale whose selection contains a composite range
\* fails with the validation error "Scale may only be applied to
\* primitives." (a ValueError) and leaves geometry, the touch index,
\* time_step and the changelog unchanged.
C28_ScaleOnCompositeIsRejected ==
    [][(/\ call'.op = "transform"
        /\ ~IsNone(call'.scale)
        /\ SelectionResolves(call')
        /\ Len(Resolved(call').comps) > 0)
        => /\ call'.raised = "ValueError"
           /\ UNCHANGED <<cuboid_coordinates, cuboid_shapes, cuboid_index,
                          time_step, changelog>>
      ]_vars

\* The rows 0 .. n-1 of a buffer.
Rows(buf, n) == SubSeq(buf, 1, n)

\* The geometry, shape and attributes stored for the ids below n are what
\* they were.
ExistingIdsKept(n) ==
    /\ Rows(cuboid_coordinates', n) = Rows(cuboid_coordinates, n)
    /\ Rows(cuboid_shapes', n) = Rows(cuboid_shapes, n)
    /\ \A key \in DOMAIN cuboid_visual_metadata :
        Rows(cuboid_visual_metadata'[key], n)
            = Rows(cuboid_visual_metadata[key], n)

\* C29: add_cube / add_cuboid, and a clone of one primitive, on a store
\* whose primitive_counter equals the buffer capacity succeeds: the buffers
\* double, the new primitive gets id = the old primitive_counter with its
\* geometry and its shape stored at that index, and what is stored for the
\* existing ids is unchanged.
C29_PrimitiveAtCapacityGrowsBuffers ==
    [][(/\ primitive_counter = coordinates_capacity
        /\ \/ call'.op \in {"add_cube", "add_cuboid"}
           \/ /\ call'.op = "clone"
              /\ SelectionResolves(call')
              /\ Len(Resolved(call').prims) = 1
              /\ Len(Resolved(call').comps) = 0)
        => /\ call'.raised = ""
           /\ coordinates_capacity' = 2 * coordinates_capacity
           /\ shapes_capacity' > primitive_counter
           /\ primitive_counter' = primitive_counter + 1
           /\ Len(cuboid_coordinates') = primitive_counter + 1
           /\ Len(cuboid_shapes') = primitive_counter + 1
           /\ Row(cuboid_shapes', primitive_counter) # <<>>
           /\ cuboid_index'.primitives[Len(cuboid_index'.primitives)].id
                = primitive_counter
           /\ ExistingIdsKept(primitive_counter)
      ]_vars

\* C30: add_composite of n >= 1 primitives on a store with
\* primitive_counter = k succeeds for every reachable k: after at most one
\* resize the buffer capacity is at least k + n, and the composite is stored
\* at the ids [k, k + n), shapes included, without changing what is stored
\* for any existing id.  (A name that is already bound is rejected for
\* another reason and is left out.)
C30_CompositeAlwaysFits ==
    [][(call'.op = "add_composite" /\ ~NameBound(call'.name))
        => LET k == primitive_counter
               n == primitive_counter' - primitive_counter
           IN  /\ call'.raised = ""
               /\ n >= 1
               /\ coordinates_capacity' >= k + n
               /\ shapes_capacity' >= k + n
               /\ Len(cuboid_coordinates') = k + n
               /\ \A id \in k..(k + n - 1) : Row(cuboid_shapes', id) # <<>>
               /\ cuboid_index'.composites[Len(cuboid_index'.composites)].id
                    = Slice(k, k + n)
               /\ ExistingIdsKept(k)
      ]_vars

\* Every registered composite range lies within the stored rows and has as
\* many ids as the composite has members (the product of the shape stored at
\* its first row); the ranges are pairwise disjoint, and no id registered as
\* a standalone primitive lies inside one.
CompositeRangesWellFormed ==
    /\ \A sl \in Composites :
        /\ 0 <= sl.start /\ sl.start < sl.stop /\ sl.stop <= primitive_counter
        /\ LET shape == Row(cuboid_shapes, sl.start)
           IN  sl.stop - sl.start = shape[1] * shape[2] * shape[3]
    /\ \A a, b \in Composites :
        a # b => (a.stop <= b.start \/ b.stop <= a.start)
    /\ \A id \in StandalonePrimitives : ~InComposite(id)

\* C31: every composite occupies the contiguous id range [start, stop)
\* assigned at its creation, with stop - start its member count; in every
\* reachable state the ranges are pairwise disjoint and hold no standalone
\* primitive id; and no later operation changes, splits or reorders a
\* recorded range: every call keeps the ranges recorded so far, in order,
\* and a range it re-registers is one of them.
C31_CompositeRangesAreStable ==
    [][/\ CompositeRangesWellFormed
       /\ CompositeRangesWellFormed'
       /\ SubSeq(cuboid_index'.composites, 1, Len(cuboid_index.composites))
            = cuboid_index.composites
       /\ call'.op \in {"mutate", "transform"}
            => Composites' = Composites
       /\ \A sl \in Composites' \ Composites : sl.start >= primitive_counter
      ]_vars

\* Two composites are stored, and a transform has re-registered both.
C31_Witness ==
    /\ call.op = "transform"
    /\ call.raised = ""
    /\ call.changed
    /\ Cardinality(Composites) = 2
    /\ Len(cuboid_index.composites) = 4

TouchesOf(ids, t, s) ==
    [k \in 1..Len(ids) |-> [id |-> ids[k], timestep_id |-> t, scene_id |-> s]]

\* C33: every effectful mutate_* or transform_* call that consumes
\* time-step T records one touch at T, in the current scene, for each
\* selected primitive id and composite range and keeps all earlier touches:
\* afterwards selection by time-step T returns exactly the objects that were
\* selected, and selection by an earlier time-step returns what it returned
\* before.
C33_EffectfulCallTouchesSelection ==
    [][(/\ call'.op \in {"mutate", "transform"}
        /\ call'.raised = ""
        /\ time_step' = time_step + 1)
        => LET r == Resolved(call')
               T == time_step
               after == SelectByTimestep(Space', T)
           IN  /\ cuboid_index'.primitives
                    = cuboid_index.primitives
                        \o TouchesOf(r.prims, T, scene_counter)
               /\ cuboid_index'.composites
                    = cuboid_index.composites
                        \o TouchesOf(r.comps, T, scene_counter)
               /\ after.raised = ""
               /\ after.prims = r.prims
               /\ after.comps = r.comps
               /\ \A t \in 0..(T - 1) :
                    SelectByTimestep(Space', t) = SelectByTimestep(Space, t)
      ]_vars

\* The call took effect as a mutation or a transform: it returned and
\* consumed a time-step.
TookEffect(c) ==
    /\ c.op \in {"mutate", "transform"}
    /\ c.raised = ""
    /\ time_step' = time_step + 1

\* The standalone primitives the step's call has created or touched.
TouchedPrimitives(c) ==
    CASE c.op \in {"add_cube", "add_cuboid"} ->
            primitive_counter..(primitive_counter' - 1)
      [] c.op = "clone" /\ primitive_counter' > primitive_counter ->
            primitive_counter..
                (primitive_counter + Len(Resolved(c).prims) - 1)
      [] TookEffect(c) -> SeqRange(Resolved(c).prims)
      [] OTHER -> {}

\* The composites the step's call has created or touched.
TouchedComposites(c) ==
    CASE c.op = "add_composite" /\ primitive_counter' > primitive_counter ->
            {Slice(primitive_counter, primitive_counter')}
      [] c.op = "clone" /\ primitive_counter' > primitive_counter ->
            LET r == Resolved(c)
            IN  {CloneSlice(r.comps, k, primitive_counter + Len(r.prims)) :
                    k \in 1..Len(r.comps)}
      [] TookEffect(c) -> SeqRange(Resolved(c).comps)
      [] OTHER -> {}

\* C34: an object is returned by selection by scene s if and only if it was
\* touched (created, mutated, transformed or created as a clone) while
\* scene_counter was s: every call adds the objects it touches to the
\* current scene and to no other, and no call removes an object from a
\* scene; so an object created before a snapshot and not touched afterwards
\* is not in the later scene, and one mutated after the snapshot is in both.
C34_SceneHoldsWhatWasTouchedInIt ==
    [][\A s \in 0..scene_counter' :
        LET before == IF s <= scene_counter
                      THEN SelectByScene(Space, s)
                      ELSE Selection(<<>>, <<>>)
            after == SelectByScene(Space', s)
        IN  /\ SeqRange(after.prims)
                = SeqRange(before.prims)
                    \cup (IF s = scene_counter
                          THEN TouchedPrimitives(call') ELSE {})
            /\ SeqRange(after.comps)
                = SeqRange(before.comps)
                    \cup (IF s = scene_counter
                          THEN TouchedComposites(call') ELSE {})
      ]_vars

\* An object created in scene 0 was mutated after the snapshot: it is in
\* scene 0 and in scene 1.
C34_Witness ==
    /\ scene_counter = 1
    /\ call.op = "mutate"
    /\ call.raised = ""
    /\ call.changed
    /\ LET first == SelectByScene(Space, 0)
           second == SelectByScene(Space, 1)
       IN  /\ NonZeroSelection(second)
           /\ SeqRange(second.prims) \subseteq SeqRange(first.prims)
           /\ SeqRange(second.comps) \subseteq SeqRange(first.comps)

\* C35: after a reflect transform with vector r takes effect, the stored
\* shape vector of every selected object is its previous shape multiplied
\* componentwise by r (a unit cube reflected by (1, -1, -1) then has shape
\* (1, -1, -1)).
C35_ReflectScalesShape ==
    [][(/\ call'.op = "transform"
        /\ ~IsNone(call'.reflect)
        /\ TookEffect(call'))
        => LET r == Resolved(call')
           IN  \A id \in 0..(primitive_counter - 1) :
                RowSelected(r, id)
                    => Row(cuboid_shapes', id)
                        = VMul(Row(cuboid_shapes, id), call'.reflect[1])
      ]_vars

\* C36: for every reflect transform that takes effect, whatever vector the
\* call accepted, applying a reflect with the vector recorded in the
\* resulting Transform entry to the same objects restores their geometry to
\* what it was before the call.
C36_ReflectRoundTrip ==
    [][(/\ call'.op = "transform"
        /\ ~IsNone(call'.reflect)
        /\ TookEffect(call'))
        => LET r == Resolved(call')
               e == changelog'[Len(changelog')]
               back == Applied(cuboid_coordinates', r,
                               [name |-> "reflect", val |-> e.transform])
           IN  /\ e.kind = "Transform"
               /\ \A id \in 0..(Len(cuboid_coordinates) - 1) :
                    RowSelected(r, id)
                        => Row(back, id) = Row(cuboid_coordinates, id)
      ]_vars

\* ------------------------------------------------------------------- C37
\* Doubled centre of a stored object: of a primitive row, or of the box a
\* composite's rows fill (first member's base to last member's far corner),
\* as _add_cuboid_primitive / _add_cuboid_composite take it on insertion.
StoredCentre2(obj) ==
    IF obj.kind = "primitive"
    THEN Centre2(Row(cuboid_coordinates, obj.id))
    ELSE VAdd(Row(cuboid_coordinates, obj.sl.start).base,
              Row(cuboid_coordinates, obj.sl.stop - 1).far)

\* Every stored object: registered standalone primitives and composites.
StoredObjects ==
    {[kind |-> "primitive", id |-> id] : id \in StandalonePrimitives}
        \cup {[kind |-> "composite", sl |-> sl] : sl \in Composites}

RECURSIVE SumCentres(_)
SumCentres(objs) ==
    IF objs = {}
    THEN Zero3
    ELSE LET o == CHOOSE x \in objs : TRUE
         IN  VAdd(StoredCentre2(o), SumCentres(objs \ {o}))

\* No Transform entry is logged: every stored row holds the geometry its
\* object was inserted with.
GeometryAsInserted ==
    \A k \in 1..Len(changelog) : changelog[k].kind # "Transform"

\* C37: in every reachable state with num_objs > 0, mean is total divided
\* by num_objs, and total is the sum of the centres of exactly the objects
\* num_objs counts, each primitive or composite once.  total sums the
\* centres the objects were inserted with, so the sum is compared in the
\* states whose geometry no transform has moved.
C37_MeanIsTotalOverNumObjs ==
    num_objs > 0
        => /\ mean.sum = total
           /\ mean.n = num_objs
           /\ GeometryAsInserted
                => /\ Cardinality(StoredObjects) = num_objs
                   /\ total = SumCentres(StoredObjects)

\* ------------------------------------------------------------------- C38
\* Every Addition entry carries its own 0-based position in the changelog.
AdditionsCarryPosition ==
    \A k \in 1..Len(changelog) :
        changelog[k].kind = "Addition" => changelog[k].timestep_id = k - 1

\* C38: the changelog is as long as time_step in every state a call leaves;
\* a call that consumes time-step t appends exactly one entry, of its own
\* kind, at position t and leaves the earlier entries as they were; and
\* every Addition entry carries its own position as timestep_id.
C38_ChangelogIndexedByTimeStep ==
    [][/\ Len(changelog') = time_step'
       /\ AdditionsCarryPosition'
       /\ time_step' # time_step
            => /\ time_step' = time_step + 1
               /\ Len(changelog) = time_step
               /\ SubSeq(changelog', 1, time_step) = changelog
               /\ changelog'[time_step + 1].kind = EntryKind(call'.op)
      ]_vars

\* An addition, a mutation or transform, then a second addition are logged.
C38_Witness ==
    /\ Len(changelog) = 3
    /\ changelog[1].kind = "Addition"
    /\ changelog[2].kind # "Addition"
    /\ changelog[3].kind = "Addition"
    /\ changelog[3].timestep_id = 2

\* ------------------------------------------------------------------- C39
\* C39: a transform_* call that takes effect changes the vertex data of the
\* selected primitives and of the members of the selected composites only:
\* the rows of every unselected primitive, every attribute column, the name
\* index, num_objs, primitive_counter and scene_counter are as before.
C39_TransformFrame ==
    [][(call'.op = "transform" /\ TookEffect(call'))
        => LET r == Resolved(call')
           IN  /\ Len(cuboid_coordinates') = Len(cuboid_coordinates)
               /\ \A id \in 0..(Len(cuboid_coordinates) - 1) :
                    ~RowSelected(r, id)
                        => Row(cuboid_coordinates', id)
                            = Row(cuboid_coordinates, id)
               /\ cuboid_visual_metadata' = cuboid_visual_metadata
               /\ cuboid_names' = cuboid_names
               /\ num_objs' = num_objs
               /\ primitive_counter' = primitive_counter
               /\ scene_counter' = scene_counter
      ]_vars

\* A transform selected by coordinate has taken effect in a store that holds
\* a second object, which the selection leaves out, and a bound name.
C39_Witness ==
    /\ call.op = "transform"
    /\ call.raised = ""
    /\ call.sel.by = "coordinate"
    /\ Len(changelog) = 3
    /\ changelog[3].kind = "Transform"
    /\ num_objs = 2
    /\ DOMAIN cuboid_names # {}

\* ------------------------------------------------------------------- C40
\* The (time-step, scene) pairs of every touch the index holds, of a
\* primitive or of a composite.
RecordedTouches ==
    {<<cuboid_index.primitives[k].timestep_id,
       cuboid_index.primitives[k].scene_id>> :
        k \in 1..Len(cuboid_index.primitives)}
    \cup {<<cuboid_index.composites[k].timestep_id,
            cuboid_index.composites[k].scene_id>> :
            k \in 1..Len(cuboid_index.composites)}

\* C40: in every reachable state every recorded touch has a time-step
\* strictly below time_step and a scene id of at most scene_counter, every
\* time-step below time_step has at least one touch, and selecting by the
\* current time_step returns nothing.
C40_TouchesLieInThePast ==
    /\ \A e \in RecordedTouches :
        /\ e[1] < time_step
        /\ e[2] <= scene_counter
    /\ \A t \in 0..(time_step - 1) :
        \E e \in RecordedTouches : e[1] = t
    /\ LET r == SelectByTimestep(Space, time_step)
       IN  r.raised = "" /\ ~NonZeroSelection(r)
====
